---- MODULE Spec2Model ----
(***************************************************************************)
(* Character rules engine of ddcampaignmanagerpro: the CharacterManager    *)
(* lifecycle (create, level-up, background update) over the localStorage   *)
(* character list, the validation pipeline, the multiclass system and the  *)
(* spell progression tables.                                               *)
(*                                                                         *)
(* JavaScript objects are functions from key strings to values: a key that *)
(* is not in the DOMAIN is an absent property.  An optional input is a     *)
(* sequence of length 0 (undefined) or 1 (the value).  Strings are TLA+    *)
(* strings, so Len, \o and SubSeq compute on their characters.             *)
(***************************************************************************)
EXTENDS Integers, Sequences, FiniteSets, TLC

VARIABLES
    store,      \* localStorage['dnd-characters-v2'], parsed: a sequence of characters
    nextId,     \* number of ids uuidv4() has generated so far, plus one
    ops,        \* number of lifecycle operations performed
    last,       \* what the last operation was given, did and returned
    subject,    \* the character value a pure function is applied to
    now,        \* Date.now(), as days and milliseconds of the day
    envelope,   \* the export envelope the caller holds, if any
    campaigns,  \* CampaignStorage: the stored campaigns
    handler,    \* the create-character request in progress, if any
    procs       \* the browser tabs running an operation on the shared localStorage

vars == <<store, nextId, ops, last, subject, now, envelope, campaigns, handler, procs>>

\* what the operations of one CharacterManager, the validation, the multiclass
\* system and the spell system do not touch
elsewhere == <<now, envelope, campaigns, handler, procs>>

-----------------------------------------------------------------------------
(* Bounds of the model *)

\* lifecycle operations in one behaviour of Spec
MaxOps == 3
\* stored characters in one behaviour of SpecProgress
MaxProgressChars == 2
\* level-ups stop once a character has reached this level
LevelCap == 22
\* performMulticlass calls applied in a row
MaxMulticlass == 3

-----------------------------------------------------------------------------
(* JavaScript values *)

Absent == <<>>

Some(v) == <<v>>

\* obj[key] as an optional value
Get(obj, key) == IF key \in DOMAIN obj THEN <<obj[key]>> ELSE <<>>

\* { ...a, ...b }
Spread(a, b) ==
    [k \in (DOMAIN a) \cup (DOMAIN b) |-> IF k \in DOMAIN b THEN b[k] ELSE a[k]]

\* the object without one key
Without(obj, key) == [k \in (DOMAIN obj) \ {key} |-> obj[k]]

\* (s || d) for an optional string s: undefined and '' are falsy
OrString(s, d) == IF s = <<>> \/ s[1] = "" THEN d ELSE s[1]

\* (n || d) for an optional number n: undefined and 0 are falsy
OrNumber(n, d) == IF n = <<>> \/ n[1] = 0 THEN d ELSE n[1]

\* (l || d) for an optional array l: an empty array is truthy
OrArray(l, d) == IF l = <<>> THEN d ELSE l[1]

\* Math.floor(a / 2)
FloorHalf(a) == a \div 2

Max(a, b) == IF a >= b THEN a ELSE b

RECURSIVE SumSeq(_)
SumSeq(s) == IF s = <<>> THEN 0 ELSE s[1] + SumSeq(Tail(s))

\* Array.prototype.includes
Includes(s, v) == \E i \in 1..Len(s) : s[i] = v

\* Array.prototype.slice(0, n), n >= 0
Slice(s, n) == SubSeq(s, 1, IF n < Len(s) THEN n ELSE Len(s))

RECURSIVE TrimLeft(_)
TrimLeft(s) ==
    IF Len(s) > 0 /\ SubSeq(s, 1, 1) = " " THEN TrimLeft(SubSeq(s, 2, Len(s))) ELSE s

RECURSIVE TrimRight(_)
TrimRight(s) ==
    IF Len(s) > 0 /\ SubSeq(s, Len(s), Len(s)) = " "
    THEN TrimRight(SubSeq(s, 1, Len(s) - 1)) ELSE s

\* String.prototype.trim (blanks only)
Trim(s) == TrimRight(TrimLeft(s))

\* a time of Date.now(): whole days since the epoch and milliseconds of the day
Time(days, ms) == [day |-> days, ms |-> ms]

\* the time at which every behaviour starts
StartTime == Time(20000, 0)

-----------------------------------------------------------------------------
(* Rule tables *)

\* key order of character.abilityScores
Abilities ==
    <<"strength", "dexterity", "constitution", "intelligence", "wisdom", "charisma">>

StatusActive == "Active"

(* SpellSystem.spellLearningRules *)

Spell(n, l, sc) == [name |-> n, level |-> l, school |-> sc]

SpellRuleClasses == {"Wizard", "Cleric"}

MaxSpellsPerLevel(class) == IF class = "Wizard" THEN 6 ELSE 5

SpellLearningLevels(class) ==
    IF class = "Wizard" THEN {1, 2, 4, 8, 12, 16, 19}
    ELSE {1, 3, 5, 7, 9, 11, 13, 15, 17, 19}

\* spellListByLevel[key] as an optional value
SpellListByLevel(class, key) ==
    IF class = "Wizard" /\ key = 1 THEN
        Some(<<Spell("Magic Missile", 1, "Evocation"),
               Spell("Shield", 1, "Abjuration"),
               Spell("Mage Armor", 1, "Abjuration")>>)
    ELSE IF class = "Wizard" /\ key = 2 THEN
        Some(<<Spell("Misty Step", 2, "Conjuration"),
               Spell("Scorching Ray", 2, "Evocation")>>)
    ELSE IF class = "Cleric" /\ key = 1 THEN
        Some(<<Spell("Cure Wounds", 1, "Healing"),
               Spell("Bless", 1, "Support")>>)
    ELSE IF class = "Cleric" /\ key = 2 THEN
        Some(<<Spell("Spiritual Weapon", 2, "Evocation")>>)
    ELSE Absent

\* getNewSpellsForLevel looking the list up by the level itself
GetNewSpellsForLevelKeyedByLevel(character) ==
    IF character.class \notin SpellRuleClasses THEN <<>>
    ELSE IF character.level \notin SpellLearningLevels(character.class) THEN <<>>
    ELSE LET newSpells ==
                 OrArray(SpellListByLevel(character.class, character.level), <<>>)
         IN  Slice(newSpells, MaxSpellsPerLevel(character.class))

\* SpellSystem.getNewSpellsForLevel
GetNewSpellsForLevel(character) ==
    IF character.class \notin SpellRuleClasses THEN <<>>
    ELSE IF character.level \notin SpellLearningLevels(character.class) THEN <<>>
    ELSE LET availableSpellLevel == FloorHalf(character.level)
             newSpells ==
                 OrArray(SpellListByLevel(character.class, availableSpellLevel), <<>>)
         IN  Slice(newSpells, MaxSpellsPerLevel(character.class))

\* character.level / 2 + wisdomModifier, counted in halves: the division is not
\* rounded, so an odd level leaves a half
PreparableHalves(character) ==
    character.level + 2 * ((character.abilityScores["wisdom"] - 10) \div 2)

\* Array.prototype.slice(0, end) for an end >= 1 given in halves: the end is
\* truncated to an integer
SliceHalves(s, halves) == Slice(s, halves \div 2)

\* prepareDailySpells rounding the half level up
PrepareDailySpellsRoundingUp(character) ==
    LET preparableHalves == Max(2, PreparableHalves(character) + (character.level % 2))
        known == OrArray(Get(character, "spells"), <<>>)
        taken == SliceHalves(known, preparableHalves)
    IN  [i \in 1..Len(taken) |-> Spread(taken[i], [prepared |-> TRUE])]

\* SpellSystem.prepareDailySpells; Math.max(1, x) is Max(2, 2x) in halves
PrepareDailySpells(character) ==
    LET preparableHalves == Max(2, PreparableHalves(character))
        known == OrArray(Get(character, "spells"), <<>>)
        taken == SliceHalves(known, preparableHalves)
    IN  [i \in 1..Len(taken) |-> Spread(taken[i], [prepared |-> TRUE])]

-----------------------------------------------------------------------------
(* MulticlassSystem *)

\* multiclassPrerequisites[targetClass].minimumScores as a set of <<ability, minimum>>;
\* the empty set for a class the table does not list
MulticlassPrerequisites(targetClass) ==
    IF targetClass = "Paladin" THEN {<<"strength", 13>>, <<"charisma", 13>>}
    ELSE IF targetClass = "Wizard" THEN {<<"intelligence", 13>>}
    ELSE IF targetClass = "Rogue" THEN {<<"dexterity", 13>>}
    ELSE IF targetClass = "Fighter" THEN {<<"strength", 13>>, <<"dexterity", 13>>}
    ELSE {}

\* character.abilityScores[ability] >= minScore; false for a missing score
ScoreAtLeast(character, ability, minScore) ==
    /\ ability \in DOMAIN character.abilityScores
    /\ character.abilityScores[ability] >= minScore

\* canMulticlass without its same-class test
CanMulticlassNoSameClassTest(character, targetClass) ==
    \A p \in MulticlassPrerequisites(targetClass) : ScoreAtLeast(character, p[1], p[2])

CanMulticlass(character, targetClass) ==
    IF character.class = targetClass THEN FALSE
    ELSE \A p \in MulticlassPrerequisites(targetClass) :
             ScoreAtLeast(character, p[1], p[2])

HitDiceByClass(class) ==
    IF class = "Barbarian" THEN Some(12)
    ELSE IF class \in {"Fighter", "Paladin", "Ranger"} THEN Some(10)
    ELSE IF class = "Wizard" THEN Some(6)
    ELSE IF class \in {"Rogue", "Cleric", "Druid"} THEN Some(8)
    ELSE Absent

\* calculateMulticlassHitPoints without the lower limit of Math.max
CalculateMulticlassHitPointsUnclamped(character, newClass) ==
    LET constitutionModifier == (character.abilityScores["constitution"] - 10) \div 2
        baseHitDice == OrNumber(HitDiceByClass(newClass), 8)
    IN  FloorHalf(baseHitDice) + constitutionModifier

CalculateMulticlassHitPoints(character, newClass) ==
    LET constitutionModifier == (character.abilityScores["constitution"] - 10) \div 2
        baseHitDice == OrNumber(HitDiceByClass(newClass), 8)
    IN  Max(1, FloorHalf(baseHitDice) + constitutionModifier)

SpellcasterClasses == <<"Wizard", "Cleric", "Druid", "Paladin", "Ranger">>

GetInitialClassSpells(characterClass) ==
    IF characterClass = "Wizard" THEN
        <<[name |-> "Mage Hand", level |-> 0],
          [name |-> "Prestidigitation", level |-> 0]>>
    ELSE IF characterClass = "Cleric" THEN
        <<[name |-> "Guidance", level |-> 0], [name |-> "Light", level |-> 0]>>
    ELSE <<>>

UpdateMulticlassSpells(character, newClass) ==
    IF Includes(SpellcasterClasses, newClass)
    THEN OrArray(Get(character, "spells"), <<>>) \o GetInitialClassSpells(newClass)
    ELSE OrArray(Get(character, "spells"), <<>>)

\* An element of character.multiclass.  performMulticlass appends bare class
\* names; the validation reads {class, level} pairs.
ClassName(c) == [str |-> c]

ClassLevel(c, l) == [class |-> c, level |-> l]

\* the class an element of character.multiclass refers to
EntryClass(e) == IF "str" \in DOMAIN e THEN e.str ELSE e.class

\* the value performMulticlass returns when canMulticlass holds
PerformMulticlass(character, newClass) ==
    LET updatedClasses ==
            IF "multiclass" \in DOMAIN character
            THEN Append(character.multiclass, ClassName(newClass))
            ELSE <<ClassName(character.class), ClassName(newClass)>>
    IN  Spread(character,
               [multiclass |-> updatedClasses,
                hitPoints  |-> character.hitPoints
                               + CalculateMulticlassHitPoints(character, newClass),
                spells     |-> UpdateMulticlassSpells(character, newClass)])

\* MulticlassSystem.validateMulticlassing(character, class): the class has no
\* such member, so the call throws a TypeError
MulticlassSystemValidateMulticlassing(character, class) == [threw |-> TRUE]

-----------------------------------------------------------------------------
(* CharacterValidationSystem *)

LowerLetters == "abcdefghijklmnopqrstuvwxyz"

UpperLetters == "ABCDEFGHIJKLMNOPQRSTUVWXYZ"

\* String.prototype.toUpperCase on one character
ToUpperCase(ch) ==
    IF \E i \in 1..Len(LowerLetters) : SubSeq(LowerLetters, i, i) = ch
    THEN LET i == CHOOSE j \in 1..Len(LowerLetters) : SubSeq(LowerLetters, j, j) = ch
         IN  SubSeq(UpperLetters, i, i)
    ELSE ch

\* s.charAt(0).toUpperCase() + s.slice(1)
Capitalize(s) ==
    IF Len(s) = 0 THEN s ELSE ToUpperCase(SubSeq(s, 1, 1)) \o SubSeq(s, 2, Len(s))

\* what one check appends to result.errors and result.warnings
Appended(errs, warns) == [threw |-> FALSE, errors |-> errs, warnings |-> warns]

Threw == [threw |-> TRUE]

\* a message pushed when its condition holds
Msg(cond, text) == IF cond THEN <<text>> ELSE <<>>

RECURSIVE Flatten(_)
Flatten(ss) == IF ss = <<>> THEN <<>> ELSE ss[1] \o Flatten(Tail(ss))

ValidRaces == <<"Human", "Elf", "Dwarf", "Halfling", "Gnome">>

ValidClasses ==
    <<"Fighter", "Wizard", "Rogue", "Cleric", "Barbarian", "Ranger", "Paladin",
      "Druid", "Monk", "Warlock">>

RECURSIVE Join(_)
Join(ss) ==
    IF ss = <<>> THEN ""
    ELSE IF Len(ss) = 1 THEN ss[1]
    ELSE ss[1] \o ", " \o Join(Tail(ss))

ValidateBasicInfo(character) ==
    LET name == Get(character, "name")
        noName == name = <<>> \/ name[1] = ""
    IN  Appended(
          Msg(noName \/ Len(Trim(name[1])) < 2,
              "Character name must be at least 2 characters long")
          \o Msg(~Includes(ValidRaces, character.race),
                 "Invalid race. Must be one of: " \o Join(ValidRaces))
          \o Msg(~Includes(ValidClasses, character.class),
                 "Invalid class. Must be one of: " \o Join(ValidClasses))
          \o Msg(character.level < 1, "Character level must be at least 1")
          \o Msg(character.level > 20, "Character level cannot exceed 20"),
          Msg(~noName /\ Len(name[1]) > 50, "Character name is unusually long")
          \o Msg(character.level > 10, "High-level character detected"))

MinScore == 3

MaxScore == 20

\* Object.entries(character.abilityScores), in key order
AbilityEntries(character) ==
    SelectSeq(Abilities, LAMBDA a : a \in DOMAIN character.abilityScores)

AbilityRangeMessage(ability) ==
    Capitalize(ability) \o " score must be between " \o ToString(MinScore)
    \o " and " \o ToString(MaxScore)

\* validateAbilityScores with the two limits themselves out of range
ValidateAbilityScoresExclusiveLimits(character) ==
    LET scores == character.abilityScores
        entries == AbilityEntries(character)
        rangeErrors ==
            Flatten([i \in 1..Len(entries) |->
                Msg(scores[entries[i]] <= MinScore \/ scores[entries[i]] >= MaxScore,
                    AbilityRangeMessage(entries[i]))])
        totalScore == SumSeq([i \in 1..Len(entries) |-> scores[entries[i]]])
        race == character.race
    IN  Appended(
          rangeErrors
          \o Msg(race = "Elf" /\ scores["dexterity"] < 12,
                 "Dexterity must be at least " \o ToString(12) \o " for " \o race),
          Msg(race = "Human" /\ totalScore < 60,
              "Total ability scores are low for " \o race)
          \o Msg(race = "Human" /\ totalScore > 80,
                 "Total ability scores are high for " \o race))

ValidateAbilityScores(character) ==
    LET scores == character.abilityScores
        entries == AbilityEntries(character)
        rangeErrors ==
            Flatten([i \in 1..Len(entries) |->
                Msg(scores[entries[i]] < MinScore \/ scores[entries[i]] > MaxScore,
                    AbilityRangeMessage(entries[i]))])
        totalScore == SumSeq([i \in 1..Len(entries) |-> scores[entries[i]]])
        race == character.race
    IN  Appended(
          rangeErrors
          \o Msg(race = "Elf" /\ scores["dexterity"] < 12,
                 "Dexterity must be at least " \o ToString(12) \o " for " \o race),
          Msg(race = "Human" /\ totalScore < 60,
              "Total ability scores are low for " \o race)
          \o Msg(race = "Human" /\ totalScore > 80,
                 "Total ability scores are high for " \o race))

\* classRequirements[class] as a sequence of <<abilityName, minScore>>, in key order
ClassRequirements(class) ==
    IF class = "Fighter" THEN <<<<"strength", 13>>, <<"constitution", 12>>>>
    ELSE IF class = "Wizard" THEN <<<<"intelligence", 14>>, <<"dexterity", 10>>>>
    ELSE IF class = "Rogue" THEN <<<<"dexterity", 13>>, <<"intelligence", 10>>>>
    ELSE IF class = "Cleric" THEN <<<<"wisdom", 13>>, <<"constitution", 10>>>>
    ELSE <<>>

ClassRequirementMessage(abilityName, minScore, class) ==
    Capitalize(abilityName) \o " must be at least " \o ToString(minScore)
    \o " for " \o class

\* validateClassRequirements counting a score equal to the minimum as unmet
ValidateClassRequirementsStrictlyAbove(character) ==
    LET requirements == ClassRequirements(character.class)
        scores == character.abilityScores
    IN  Appended(
          Flatten([i \in 1..Len(requirements) |->
              Msg(/\ requirements[i][1] \in DOMAIN scores
                  /\ scores[requirements[i][1]] <= requirements[i][2],
                  ClassRequirementMessage(requirements[i][1], requirements[i][2],
                                          character.class))]),
          <<>>)

ValidateClassRequirements(character) ==
    LET requirements == ClassRequirements(character.class)
        scores == character.abilityScores
    IN  Appended(
          Flatten([i \in 1..Len(requirements) |->
              Msg(/\ requirements[i][1] \in DOMAIN scores
                  /\ scores[requirements[i][1]] < requirements[i][2],
                  ClassRequirementMessage(requirements[i][1], requirements[i][2],
                                          character.class))]),
          <<>>)

\* whether the sum below is NaN: some entry has no level (undefined)
TotalLevelIsNaN(character) ==
    \E i \in 1..Len(character.multiclass) :
        "level" \notin DOMAIN character.multiclass[i]

\* sum of mc.level over character.multiclass, plus character.level, when that is
\* a number
TotalLevel(character) ==
    SumSeq([i \in 1..Len(character.multiclass) |->
               IF "level" \in DOMAIN character.multiclass[i]
               THEN character.multiclass[i].level ELSE 0])
    + character.level

ValidateMulticlassing(character) ==
    IF "multiclass" \in DOMAIN character /\ Len(character.multiclass) > 0 THEN
        LET delegated ==
                [i \in 1..Len(character.multiclass) |->
                    MulticlassSystemValidateMulticlassing(
                        character, Get(character.multiclass[i], "class"))]
        IN  IF \E i \in 1..Len(delegated) : delegated[i].threw THEN Threw
            ELSE Appended(
                   Flatten([i \in 1..Len(delegated) |->
                       IF delegated[i].isValid THEN <<>> ELSE delegated[i].errors])
                   \* a comparison with NaN is false
                   \o Msg(~TotalLevelIsNaN(character) /\ TotalLevel(character) > 20,
                          "Total character levels cannot exceed 20"),
                   Msg(~TotalLevelIsNaN(character) /\ TotalLevel(character) > 15,
                       "High total character levels detected"))
    ELSE Appended(<<>>, <<>>)

\* CharacterArchetypeSystem: the archetypes each class may select
ArchetypesOf(class) ==
    IF class = "Fighter" THEN {"Champion", "Battle Master"}
    ELSE IF class = "Wizard" THEN {"Evoker"}
    ELSE IF class = "Cleric" THEN {"Life Domain"}
    ELSE {}

\* CharacterArchetypeSystem.validateArchetypeSelection(character, archetype),
\* archetype an optional value (archetypeFeatures[0] of an empty list is undefined)
ValidateArchetypeSelection(character, archetype) ==
    IF archetype # <<>> /\ archetype[1] \in ArchetypesOf(character.class)
    THEN [isValid |-> TRUE, errors |-> <<>>]
    ELSE [isValid |-> FALSE,
          errors |-> <<"Archetype is not available for " \o character.class>>]

ValidateArchetype(character) ==
    IF "archetypeFeatures" \in DOMAIN character THEN
        LET features == character.archetypeFeatures
            archetypeValidation ==
                ValidateArchetypeSelection(
                    character, IF Len(features) > 0 THEN Some(features[1]) ELSE Absent)
        IN  Appended(IF archetypeValidation.isValid THEN <<>>
                     ELSE archetypeValidation.errors,
                     <<>>)
    ELSE Appended(<<>>, <<"No archetype selected for " \o character.class>>)

ValidAlignments ==
    <<"Lawful Good", "Neutral Good", "Chaotic Good",
      "Lawful Neutral", "True Neutral", "Chaotic Neutral",
      "Lawful Evil", "Neutral Evil", "Chaotic Evil">>

\* AlignmentSystem.alignmentDefinitions, as <<name, moral, ethical>> in key order
AlignmentDefinitions ==
    <<<<"Lawful Good", "Good", "Lawful">>, <<"Neutral Good", "Good", "Neutral">>,
      <<"Chaotic Good", "Good", "Chaotic">>, <<"Lawful Neutral", "Neutral", "Lawful">>,
      <<"True Neutral", "Neutral", "Neutral">>,
      <<"Chaotic Neutral", "Neutral", "Chaotic">>,
      <<"Lawful Evil", "Evil", "Lawful">>, <<"Neutral Evil", "Evil", "Neutral">>,
      <<"Chaotic Evil", "Evil", "Chaotic">>>>

ValidateAlignment(character) ==
    IF "alignment" \in DOMAIN character THEN
        LET matching ==
                SelectSeq(AlignmentDefinitions,
                          LAMBDA d : /\ d[2] = character.alignment.moral
                                     /\ d[3] = character.alignment.ethical)
        IN  Appended(
              Msg(matching = <<>> \/ ~Includes(ValidAlignments, matching[1][1]),
                  "Invalid character alignment"),
              <<>>)
    ELSE Appended(<<>>, <<"No alignment specified">>)

\* validateSkills warning from exactly 80% of the budget on
ValidateSkillsWarnsFromEightyPercent(character) ==
    IF "skills" \in DOMAIN character THEN
        LET skills == character.skills
            maxSkillPoints == character.level * 2
            totalSkillPoints == SumSeq([i \in 1..Len(skills) |-> skills[i][2]])
        IN  Appended(
              Flatten([i \in 1..Len(skills) |->
                  Msg(skills[i][2] < 0 \/ skills[i][2] > 20,
                      "Skill " \o skills[i][1] \o " level must be between 0 and 20")])
              \o Msg(totalSkillPoints > maxSkillPoints,
                     "Total skill points (" \o ToString(totalSkillPoints)
                     \o ") cannot exceed " \o ToString(maxSkillPoints)),
              Msg(5 * totalSkillPoints >= 4 * maxSkillPoints,
                  "Skill points are near maximum allocation"))
    ELSE Appended(<<>>, <<>>)

\* character.skills is a sequence of <<skill, level>>: Object.entries in key order
ValidateSkills(character) ==
    IF "skills" \in DOMAIN character THEN
        LET skills == character.skills
            maxSkillPoints == character.level * 2
            totalSkillPoints == SumSeq([i \in 1..Len(skills) |-> skills[i][2]])
        IN  Appended(
              Flatten([i \in 1..Len(skills) |->
                  Msg(skills[i][2] < 0 \/ skills[i][2] > 20,
                      "Skill " \o skills[i][1] \o " level must be between 0 and 20")])
              \o Msg(totalSkillPoints > maxSkillPoints,
                     "Total skill points (" \o ToString(totalSkillPoints)
                     \o ") cannot exceed " \o ToString(maxSkillPoints)),
              \* totalSkillPoints > maxSkillPoints * 0.8
              Msg(5 * totalSkillPoints > 4 * maxSkillPoints,
                  "Skill points are near maximum allocation"))
    ELSE Appended(<<>>, <<>>)

\* (item.weight || 0)
ItemWeight(item) == OrNumber(Get(item, "weight"), 0)

\* validateInventory warning from exactly 80% of the capacity on
ValidateInventoryWarnsFromEightyPercent(character) ==
    IF "inventory" \in DOMAIN character THEN
        LET inventory == character.inventory
            maxCarryWeight == 15 * character.abilityScores["strength"]
            totalWeight == SumSeq([i \in 1..Len(inventory) |-> ItemWeight(inventory[i])])
        IN  Appended(
              Msg(totalWeight > maxCarryWeight,
                  "Inventory weight (" \o ToString(totalWeight)
                  \o ") exceeds carrying capacity of " \o ToString(maxCarryWeight))
              \o Flatten([i \in 1..Len(inventory) |->
                     Msg(\E j \in 1..(i - 1) : inventory[j].id = inventory[i].id,
                         "Duplicate item found: " \o inventory[i].name)]),
              Msg(5 * totalWeight >= 4 * maxCarryWeight,
                  "Inventory is near maximum carrying capacity"))
    ELSE Appended(<<>>, <<>>)

ValidateInventory(character) ==
    IF "inventory" \in DOMAIN character THEN
        LET inventory == character.inventory
            maxCarryWeight == 15 * character.abilityScores["strength"]
            totalWeight == SumSeq([i \in 1..Len(inventory) |-> ItemWeight(inventory[i])])
        IN  Appended(
              Msg(totalWeight > maxCarryWeight,
                  "Inventory weight (" \o ToString(totalWeight)
                  \o ") exceeds carrying capacity of " \o ToString(maxCarryWeight))
              \o Flatten([i \in 1..Len(inventory) |->
                     Msg(\E j \in 1..(i - 1) : inventory[j].id = inventory[i].id,
                         "Duplicate item found: " \o inventory[i].name)]),
              \* totalWeight > maxCarryWeight * 0.8
              Msg(5 * totalWeight > 4 * maxCarryWeight,
                  "Inventory is near maximum carrying capacity"))
    ELSE Appended(<<>>, <<>>)

TraitTypes == <<"personality", "ideals", "bonds", "flaws">>

ValidateBackstory(character) ==
    LET backstory == Get(character, "backstory")
        traits == IF "traits" \in DOMAIN character THEN character.traits ELSE <<>>
        traitTypes == SelectSeq(TraitTypes, LAMBDA t : t \in DOMAIN traits)
    IN  Appended(
          <<>>,
          (IF backstory # <<>> /\ backstory[1] # ""
           THEN Msg(Len(backstory[1]) > 1000, "Backstory is unusually long")
           ELSE <<"No backstory provided">>)
          \o Flatten([i \in 1..Len(traitTypes) |->
                 Msg(Len(traits[traitTypes[i]]) = 0,
                     "No " \o traitTypes[i] \o " traits specified")
                 \o Msg(Len(traits[traitTypes[i]]) > 3,
                        "Excessive number of " \o traitTypes[i] \o " traits")]))

\* the nine checks, in pipeline order
Pipeline(character) ==
    <<ValidateBasicInfo(character), ValidateAbilityScores(character),
      ValidateClassRequirements(character), ValidateMulticlassing(character),
      ValidateArchetype(character), ValidateAlignment(character),
      ValidateSkills(character), ValidateInventory(character),
      ValidateBackstory(character)>>

\* validateCharacter without its final assignment: isValid keeps its initial value
ValidateCharacterStaleIsValid(character) ==
    LET checks == Pipeline(character)
    IN  IF \E i \in 1..Len(checks) : checks[i].threw THEN Threw
        ELSE [threw    |-> FALSE,
              isValid  |-> TRUE,
              errors   |-> Flatten([i \in 1..Len(checks) |-> checks[i].errors]),
              warnings |-> Flatten([i \in 1..Len(checks) |-> checks[i].warnings])]

\* validateCharacter: the ValidationResult, or threw when a check throws
ValidateCharacter(character) ==
    LET checks == Pipeline(character)
        errors == Flatten([i \in 1..Len(checks) |-> checks[i].errors])
    IN  IF \E i \in 1..Len(checks) : checks[i].threw THEN Threw
        ELSE [threw    |-> FALSE,
              isValid  |-> Len(errors) = 0,
              errors   |-> errors,
              warnings |-> Flatten([i \in 1..Len(checks) |-> checks[i].warnings])]

\* a check that pushes nothing once the shared result holds an error
ApplyCheckUnlessErrors(result, check) ==
    IF result.threw \/ check.threw THEN Threw
    ELSE IF Len(result.errors) > 0 THEN result
    ELSE [threw    |-> FALSE,
          errors   |-> result.errors \o check.errors,
          warnings |-> result.warnings \o check.warnings]

\* one call of the pipeline on the shared result: the check pushes its errors
\* and warnings onto it and reads nothing from it; a throw ends validateCharacter
ApplyCheck(result, check) ==
    IF result.threw \/ check.threw THEN Threw
    ELSE [threw    |-> FALSE,
          errors   |-> result.errors \o check.errors,
          warnings |-> result.warnings \o check.warnings]

\* the calls of the pipeline made one after the other, in the order given
RECURSIVE RunChecks(_, _, _)
RunChecks(result, checks, order) ==
    IF order = <<>> THEN result
    ELSE RunChecks(ApplyCheck(result, checks[order[1]]), checks, Tail(order))

\* the order of the nine calls in validateCharacter
PipelineOrder == <<1, 2, 3, 4, 5, 6, 7, 8, 9>>

\* validateCharacter with its nine calls made in the order given
ValidateCharacterInOrder(character, order) ==
    LET result == RunChecks([threw |-> FALSE, errors |-> <<>>, warnings |-> <<>>],
                            Pipeline(character), order)
    IN  IF result.threw THEN Threw
        ELSE [threw    |-> FALSE,
              isValid  |-> Len(result.errors) = 0,
              errors   |-> result.errors,
              warnings |-> result.warnings]

-----------------------------------------------------------------------------
(* Collaborators of CharacterManager *)

\* the JavaScript value undefined, as the value of a string-valued property
Undefined == "<undefined>"

\* uuidv4(): the n-th generated id
Uuid(n) == "uuid-" \o ToString(n)

\* (score - 10) / 2, rounded down
AbilityModifier(score) == (score - 10) \div 2

\* the ability scores the character builder rolls, by generation method
BuilderScores(generationMethod) ==
    IF generationMethod = "standard" THEN
        [strength |-> 15, dexterity |-> 14, constitution |-> 13,
         intelligence |-> 12, wisdom |-> 10, charisma |-> 8]
    ELSE IF generationMethod = "heroic" THEN
        [strength |-> 20, dexterity |-> 16, constitution |-> 14,
         intelligence |-> 14, wisdom |-> 12, charisma |-> 10]
    ELSE
        [strength |-> 20, dexterity |-> 20, constitution |-> 20,
         intelligence |-> 20, wisdom |-> 20, charisma |-> 20]

\* CharacterBuilder.createCharacter(class, race, generationMethod)
CharacterBuilderCreateCharacter(class, race, generationMethod) ==
    LET scores == BuilderScores(generationMethod)
    IN  [class        |-> class,
         race         |-> race,
         abilityScores |-> scores,
         hitPoints    |-> Max(1, OrNumber(HitDiceByClass(class), 8)
                                 + AbilityModifier(scores["constitution"])),
         armorClass   |-> 10 + AbilityModifier(scores["dexterity"])]

\* AbilityScoreUtils.canImproveAbilityScore
CanImproveAbilityScore(character, ability) == character.abilityScores[ability] < 20

\* AbilityScoreUtils.improveAbilityScore
ImproveAbilityScore(character, ability) ==
    [character EXCEPT !.abilityScores[ability] = @ + 1]

\* CharacterManager.calculateHitPointIncrease
CalculateHitPointIncrease(character) ==
    Max(1, FloorHalf(OrNumber(HitDiceByClass(character.class), 8)) + 1
           + AbilityModifier(character.abilityScores["constitution"]))

-----------------------------------------------------------------------------
(* CharacterManager *)

\* JSON.parse(JSON.stringify(character)): a property whose value is undefined
\* is not written
JsonRoundTrip(character) ==
    IF "campaignId" \in DOMAIN character /\ character.campaignId = Undefined
    THEN Without(character, "campaignId")
    ELSE character

\* characters.findIndex(c => c.id === id); 0 stands for -1
FindIndex(characters, id) ==
    IF \E i \in 1..Len(characters) : characters[i].id = id
    THEN CHOOSE i \in 1..Len(characters) :
             /\ characters[i].id = id
             /\ \A j \in 1..(i - 1) : characters[j].id # id
    ELSE 0

\* getCharacterById falling back to the first character for a missing id
GetCharacterByIdOrFirst(characters, id) ==
    IF FindIndex(characters, id) # 0 THEN Some(characters[FindIndex(characters, id)])
    ELSE IF Len(characters) > 0 THEN Some(characters[1])
    ELSE Absent

\* getCharacterById, as an optional value
GetCharacterById(characters, id) ==
    IF FindIndex(characters, id) = 0 THEN Absent
    ELSE Some(characters[FindIndex(characters, id)])

\* saveCharacter that pushes the character whether or not its id is stored
SaveCharacterAlwaysPushes(characters, character) ==
    Append(characters, JsonRoundTrip(character))

\* saveCharacter: the list written back to localStorage
SaveCharacter(characters, character) ==
    LET existingIndex == FindIndex(characters, character.id)
    IN  IF existingIndex # 0
        THEN [characters EXCEPT ![existingIndex] = JsonRoundTrip(character)]
        ELSE Append(characters, JsonRoundTrip(character))

\* baseCharacterStructure with level 0 for a character data without level
BaseCharacterStructureLevelZero(characterData, uuid) ==
    [id         |-> OrString(Get(characterData, "id"), uuid),
     name       |-> OrString(Get(characterData, "name"), "Unnamed Character"),
     level      |-> OrNumber(Get(characterData, "level"), 0),
     experience |-> 0,
     campaignId |-> IF "campaignId" \in DOMAIN characterData
                    THEN characterData.campaignId ELSE Undefined,
     status     |-> StatusActive,
     inventory  |-> <<>>,
     spells     |-> <<>>,
     backstory  |-> OrString(Get(characterData, "backstory"), ""),
     traits     |-> [personality |-> <<>>, ideals |-> <<>>,
                     bonds |-> <<>>, flaws |-> <<>>]]

\* baseCharacterStructure; uuid is what uuidv4() returns if it is called
BaseCharacterStructure(characterData, uuid) ==
    [id         |-> OrString(Get(characterData, "id"), uuid),
     name       |-> OrString(Get(characterData, "name"), "Unnamed Character"),
     level      |-> OrNumber(Get(characterData, "level"), 1),
     experience |-> 0,
     campaignId |-> IF "campaignId" \in DOMAIN characterData
                    THEN characterData.campaignId ELSE Undefined,
     status     |-> StatusActive,
     inventory  |-> <<>>,
     spells     |-> <<>>,
     backstory  |-> OrString(Get(characterData, "backstory"), ""),
     traits     |-> [personality |-> <<>>, ideals |-> <<>>,
                     bonds |-> <<>>, flaws |-> <<>>]]

\* whether baseCharacterStructure calls uuidv4()
UsesUuid(characterData) ==
    Get(characterData, "id") = <<>> \/ characterData.id = ""

\* the newCharacter object createCharacter builds
NewCharacter(characterData, generationMethod, uuid) ==
    LET characterTemplate ==
            CharacterBuilderCreateCharacter(
                OrString(Get(characterData, "class"), "Fighter"),
                OrString(Get(characterData, "race"), "Human"),
                generationMethod)
    IN  Spread(Spread(BaseCharacterStructure(characterData, uuid), characterTemplate),
               [status |-> StatusActive])

\* the test applied to the level before the increment
AbilityScoreImprovementDueOldLevel(character) == (character.level - 1) % 4 = 0

\* character.level % 4 === 0
AbilityScoreImprovementDue(character) == character.level % 4 = 0

\* Object.keys(abilityScores).filter(canImproveAbilityScore)
ImprovableAbilities(character) ==
    SelectSeq(AbilityEntries(character),
              LAMBDA a : CanImproveAbilityScore(character, a))

OfferAbilityScoreImprovement(character) ==
    LET improvableAbilities == ImprovableAbilities(character)
    IN  IF Len(improvableAbilities) > 0
        THEN ImproveAbilityScore(character, improvableAbilities[1])
        ELSE character

\* updateSpellProgression that puts the new spells before the known ones
UpdateSpellProgressionNewFirst(character) ==
    [character EXCEPT
        !.spells = GetNewSpellsForLevel(character)
                   \o OrArray(Get(character, "spells"), <<>>)]

UpdateSpellProgression(character) ==
    [character EXCEPT
        !.spells = OrArray(Get(character, "spells"), <<>>)
                   \o GetNewSpellsForLevel(character)]

BaseXP == 300

\* experience accumulated instead of recomputed
CalculateExperienceAccumulated(character) == character.experience + BaseXP

CalculateExperience(character) == character.level * BaseXP

\* the character levelUpCharacter saves and returns, from the one it found
LevelledUp(found) ==
    LET c1 == [found EXCEPT !.level = @ + 1]
        c2 == [c1 EXCEPT !.hitPoints = @ + CalculateHitPointIncrease(c1)]
        c3 == IF AbilityScoreImprovementDue(c2)
              THEN OfferAbilityScoreImprovement(c2) ELSE c2
        c4 == UpdateSpellProgression(c3)
    IN  [c4 EXCEPT !.experience = CalculateExperience(c4)]

\* backstoryData.backstory || character.backstory, as an optional value
NewBackstory(character, backstoryData) ==
    LET supplied == Get(backstoryData, "backstory")
    IN  IF supplied # <<>> /\ supplied[1] # "" THEN supplied
        ELSE Get(character, "backstory")

\* backstoryData[t] || character.traits[t]
NewTrait(character, backstoryData, t) ==
    OrArray(Get(backstoryData, t), character.traits[t])

\* character.traits.x is read, and throws, when the character has no traits
\* and some trait list is not supplied
BackgroundThrows(character, backstoryData) ==
    /\ "traits" \notin DOMAIN character
    /\ \E i \in 1..Len(TraitTypes) : TraitTypes[i] \notin DOMAIN backstoryData

\* the character updateCharacterBackground saves and returns, from the one it found
BackgroundUpdated(found, backstoryData) ==
    LET backstory == NewBackstory(found, backstoryData)
        c1 == IF backstory = <<>> THEN Without(found, "backstory")
              ELSE Spread(found, [backstory |-> backstory[1]])
    IN  Spread(c1, [traits |-> [personality |-> NewTrait(found, backstoryData, "personality"),
                               ideals |-> NewTrait(found, backstoryData, "ideals"),
                               bonds |-> NewTrait(found, backstoryData, "bonds"),
                               flaws |-> NewTrait(found, backstoryData, "flaws")]])

-----------------------------------------------------------------------------
(* Export and import: CharacterExportSystem and CharacterManager *)

\* 24 * 60 * 60 * 1000
MsPerDay == 86400000

\* MAX_EXPORT_AGE = 365 * 24 * 60 * 60 * 1000 ms, in days
MaxExportAgeDays == 365

\* a time some days and milliseconds later
Later(time, days, ms) ==
    Time(time.day + days + ((time.ms + ms) \div MsPerDay), (time.ms + ms) % MsPerDay)

\* Date.now() - timestamp > MAX_EXPORT_AGE, for Date.now() = current
OlderThanMaxExportAge(current, timestamp) ==
    LET days == current.day - timestamp.day
        ms == current.ms - timestamp.ms
    IN  days > MaxExportAgeDays \/ (days = MaxExportAgeDays /\ ms > 0)

\* Date.prototype.toISOString, on the model's days and milliseconds
ToISOString(time) == "D" \o ToString(time.day) \o "T" \o ToString(time.ms) \o "Z"

\* sanitizeCharacterData that leaves campaignId in the exported character
SanitizeCharacterDataKeepsCampaign(character, current) ==
    Spread(Without(Without(character, "id"), "status"), [exportedAt |-> current])

\* sanitizeCharacterData, for Date.now() = current
SanitizeCharacterData(character, current) ==
    Spread(Without(Without(Without(character, "id"), "status"), "campaignId"),
           [exportedAt |-> current])

\* the result of a failed export or import
Failure(errs) == [threw |-> FALSE, success |-> FALSE, errors |-> errs]

\* CharacterExportSystem.exportCharacter; uuid is what uuidv4() returns if it is
\* called
ExportCharacter(character, uuid, current) ==
    LET validationResult == ValidateCharacter(character)
    IN  IF validationResult.threw THEN Threw
        ELSE IF ~validationResult.isValid THEN Failure(validationResult.errors)
        ELSE [threw   |-> FALSE,
              success |-> TRUE,
              data    |-> [version   |-> "1.1.0",
                           exportId  |-> uuid,
                           timestamp |-> current,
                           character |-> SanitizeCharacterData(character, current),
                           metadata  |->
                               [validationResult |->
                                    [isValid  |-> validationResult.isValid,
                                     errors   |-> validationResult.errors,
                                     warnings |-> validationResult.warnings],
                                exportVersion |-> "1.1.0"]]]

\* whether CharacterExportSystem.importCharacter gets as far as uuidv4()
ImportReconstructs(exportData, current) ==
    /\ exportData.version = "1.1.0"
    \* a missing timestamp makes the age NaN, and NaN > MAX_EXPORT_AGE is false
    /\ "timestamp" \in DOMAIN exportData =>
           ~OlderThanMaxExportAge(current, exportData.timestamp)

\* CharacterExportSystem.importCharacter
ImportCharacter(exportData, uuid, current) ==
    IF exportData.version # "1.1.0" THEN Failure(<<"Incompatible export version">>)
    ELSE IF ~ImportReconstructs(exportData, current)
    THEN Failure(<<"Export data is too old">>)
    ELSE LET importedCharacter == Spread(exportData.character, [id |-> uuid])
             validationResult == ValidateCharacter(importedCharacter)
         IN  IF validationResult.threw THEN Threw
             ELSE IF ~validationResult.isValid THEN Failure(validationResult.errors)
             ELSE [threw |-> FALSE, success |-> TRUE, character |-> importedCharacter]

\* the envelope CharacterManager.exportCharacter returns for a stored character
ManagerExport(character, current) ==
    [version   |-> "1.0.0",
     character |-> character,
     metadata  |-> [exportedAt |-> ToISOString(current), exportVersion |-> "1.0.0"]]

\* whether CharacterManager.importCharacter throws 'Incompatible export version'
ManagerImportThrows(exportData) == exportData.version # "1.0.0"

\* the importedCharacter of CharacterManager.importCharacter
ManagerImported(exportData, uuid) == Spread(exportData.character, [id |-> uuid])

-----------------------------------------------------------------------------
(* Inputs *)

\* characterData and generationMethod of the createCharacter calls
CreateRequests ==
    { [data |-> <<>>, method |-> "standard"],
      [data |-> [name |-> "A"], method |-> "standard"],
      [data |-> [name |-> "Bob", class |-> "Wizard", level |-> 3], method |-> "heroic"],
      [data |-> [name |-> "Cy", level |-> 19, campaignId |-> "camp-1",
                 backstory |-> "saga"], method |-> "elite"],
      [data |-> [name |-> "Dee", class |-> "Cleric", level |-> 20],
       method |-> "standard"] }

\* the createCharacter calls that supply no level
PlainCreateRequests == {r \in CreateRequests : "level" \notin DOMAIN r.data}

\* backstoryData of the updateCharacterBackground calls
BackgroundRequests ==
    { <<>>,
      [backstory |-> "epic", personality |-> <<"brave">>, ideals |-> <<"honor">>,
       bonds |-> <<"kin">>, flaws |-> <<"greed">>],
      [backstory |-> "", personality |-> <<>>, ideals |-> <<>>, bonds |-> <<>>,
       flaws |-> <<>>],
      [backstory |-> "epic", ideals |-> <<>>, flaws |-> <<"pride">>],
      [personality |-> <<"shy">>, bonds |-> <<>>] }

StoredIds == {store[i].id : i \in 1..Len(store)}

\* an id no character is ever given
UnknownId == "no-such-id"

NoSubject == [id |-> "none"]

NoCall == [op |-> "init"]

-----------------------------------------------------------------------------
(* Operations of CharacterManager on the stored list *)

Returned(opName, outcomeName, callId, callData, found, returned) ==
    [op |-> opName, outcome |-> outcomeName, id |-> callId, data |-> callData,
     before |-> found, ret |-> returned]

CreateCharacter(characterData, generationMethod) ==
    LET newCharacter == NewCharacter(characterData, generationMethod, Uuid(nextId))
    IN  /\ store' = SaveCharacter(store, newCharacter)
        /\ nextId' = IF UsesUuid(characterData) THEN nextId + 1 ELSE nextId
        /\ last' = Returned("createCharacter", "ok", newCharacter.id, characterData,
                            Absent, Some(newCharacter))
        /\ UNCHANGED subject
        /\ UNCHANGED elsewhere

LevelUpCharacter(characterId) ==
    LET character == GetCharacterById(store, characterId)
    IN  /\ IF character = <<>>
           THEN /\ store' = store
                /\ last' = Returned("levelUpCharacter", "notFound", characterId, <<>>,
                                    Absent, Absent)
           ELSE /\ store' = SaveCharacter(store, LevelledUp(character[1]))
                /\ last' = Returned("levelUpCharacter", "ok", characterId, <<>>,
                                    character, Some(LevelledUp(character[1])))
        /\ UNCHANGED <<nextId, subject>>
        /\ UNCHANGED elsewhere

UpdateCharacterBackground(characterId, backstoryData) ==
    LET character == GetCharacterById(store, characterId)
    IN  /\ IF character = <<>>
           THEN /\ store' = store
                /\ last' = Returned("updateCharacterBackground", "notFound",
                                    characterId, backstoryData, Absent, Absent)
           ELSE IF BackgroundThrows(character[1], backstoryData)
           THEN /\ store' = store
                /\ last' = Returned("updateCharacterBackground", "typeError",
                                    characterId, backstoryData, character, Absent)
           ELSE /\ store' = SaveCharacter(store,
                                          BackgroundUpdated(character[1], backstoryData))
                /\ last' = Returned("updateCharacterBackground", "ok", characterId,
                                    backstoryData, character,
                                    Some(BackgroundUpdated(character[1], backstoryData)))
        /\ UNCHANGED <<nextId, subject>>
        /\ UNCHANGED elsewhere

\* characterData with an id property, when one is supplied
WithId(characterData, id) ==
    IF id = <<>> THEN characterData ELSE Spread(characterData, [id |-> id[1]])

\* the clock at its start, no envelope held, no campaign stored, no request
\* in progress, no tab at work
Untouched ==
    /\ now = StartTime
    /\ envelope = <<>>
    /\ campaigns = <<>>
    /\ handler = <<>>
    /\ procs = <<>>

Init ==
    /\ store = <<>>
    /\ nextId = 1
    /\ ops = 0
    /\ last = NoCall
    /\ Untouched
    /\ subject = NoSubject

Next ==
    \/ \E r \in CreateRequests, id \in {Absent} \cup {Some(i) : i \in StoredIds} :
           /\ ops < MaxOps
           /\ ops' = ops + 1
           /\ CreateCharacter(WithId(r.data, id), r.method)
    \/ \E id \in StoredIds \cup {UnknownId} :
           /\ ops < MaxOps
           /\ ops' = ops + 1
           /\ LevelUpCharacter(id)
    \/ \E id \in StoredIds \cup {UnknownId}, d \in BackgroundRequests :
           /\ ops < MaxOps
           /\ ops' = ops + 1
           /\ UpdateCharacterBackground(id, d)

Spec == Init /\ [][Next]_vars

\* createCharacter without a level and levelUpCharacter only
NextProgress ==
    \/ \E r \in PlainCreateRequests :
           /\ Len(store) < MaxProgressChars
           /\ CreateCharacter(r.data, r.method)
           /\ UNCHANGED ops
    \/ \E id \in StoredIds :
           /\ \A i \in 1..Len(store) : store[i].id = id => store[i].level < LevelCap
           /\ LevelUpCharacter(id)
           /\ UNCHANGED ops

SpecProgress == Init /\ [][NextProgress]_vars

-----------------------------------------------------------------------------
(* validateCharacter applied to character values *)

SubjectScores ==
    { [strength |-> 15, dexterity |-> 14, constitution |-> 13,
       intelligence |-> 14, wisdom |-> 13, charisma |-> 8],
      [strength |-> 10, dexterity |-> 11, constitution |-> 12,
       intelligence |-> 9, wisdom |-> 10, charisma |-> 21],
      [strength |-> 2, dexterity |-> 14, constitution |-> 10,
       intelligence |-> 16, wisdom |-> 12, charisma |-> 10],
      [strength |-> 20, dexterity |-> 11, constitution |-> 12,
       intelligence |-> 14, wisdom |-> 3, charisma |-> 13] }

\* the optional properties of a subject
SubjectExtras ==
    { <<>>,
      [archetypeFeatures |-> <<"Champion">>,
       alignment |-> [moral |-> "Good", ethical |-> "Lawful"],
       skills |-> <<<<"stealth", 1>>>>],
      [archetypeFeatures |-> <<"Evoker">>,
       alignment |-> [moral |-> "Good", ethical |-> "Wicked"],
       skills |-> <<<<"stealth", 21>>, <<"arcana", 3>>>>],
      [skills |-> <<<<"stealth", 5>>, <<"arcana", 3>>>>],
      [skills |-> <<<<"stealth", 6>>, <<"arcana", 4>>>>],
      [skills |-> <<<<"stealth", 6>>, <<"arcana", 5>>>>] }

SubjectMulticlass ==
    { <<>>,
      [multiclass |-> <<>>],
      [multiclass |-> <<ClassLevel("Rogue", 2)>>],
      [multiclass |-> <<ClassLevel("Rogue", 2), ClassLevel("Cleric", 17)>>],
      [multiclass |-> <<ClassName("Fighter"), ClassName("Wizard")>>] }

SubjectInventories ==
    { <<>>,
      <<[id |-> "i1", name |-> "Rope", weight |-> 10]>>,
      <<[id |-> "i1", name |-> "Anvil", weight |-> 200],
        [id |-> "i1", name |-> "Anvil", weight |-> 200]>>,
      <<[id |-> "i1", name |-> "Rope", weight |-> 10],
        [id |-> "i2", name |-> "Chest", weight |-> 110]>>,
      <<[id |-> "i2", name |-> "Chest", weight |-> 110],
        [id |-> "i3", name |-> "Tent", weight |-> 40]>>,
      <<[id |-> "i4", name |-> "Statue", weight |-> 200]>> }

ValidationSubjects ==
    { Spread(Spread(
        [id |-> "subject", name |-> n, race |-> r, class |-> c, level |-> l,
         experience |-> 0, status |-> StatusActive, abilityScores |-> a,
         hitPoints |-> 10, armorClass |-> 10, inventory |-> inv, spells |-> <<>>,
         backstory |-> b,
         traits |-> [personality |-> <<"brave">>, ideals |-> <<>>,
                     bonds |-> <<"kin">>, flaws |-> <<"a", "b", "c", "d">>]],
        x), m) :
        n \in {"A", "Bob"}, r \in {"Human", "Elf"}, c \in {"Fighter", "Wizard", "Bard"},
        l \in {0, 1, 5, 21}, a \in SubjectScores, inv \in SubjectInventories,
        b \in {"", "saga"}, x \in SubjectExtras, m \in SubjectMulticlass }

InitValidate ==
    /\ store = <<>>
    /\ nextId = 1
    /\ ops = 0
    /\ last = NoCall
    /\ Untouched
    /\ subject \in ValidationSubjects

ValidateSubject ==
    /\ last = NoCall
    /\ last' = [op |-> "validateCharacter", result |-> ValidateCharacter(subject)]
    /\ UNCHANGED <<store, nextId, ops, subject>>
    /\ UNCHANGED elsewhere

SpecValidate == InitValidate /\ [][ValidateSubject]_vars

-----------------------------------------------------------------------------
(* the nine checks of validateCharacter called in other orders *)

Reverse(s) == [i \in 1..Len(s) |-> s[Len(s) + 1 - i]]

\* s with the elements at k and k + 1 exchanged
SwapAdjacent(s, k) ==
    [i \in 1..Len(s) |-> IF i = k THEN s[k + 1] ELSE IF i = k + 1 THEN s[k] ELSE s[i]]

\* s started at its element k + 1
Rotate(s, k) == [i \in 1..Len(s) |-> s[((i + k - 1) % Len(s)) + 1]]

\* the pipeline order, its reversal, its adjacent exchanges and its rotations
CheckOrders ==
    {PipelineOrder, Reverse(PipelineOrder)}
    \cup {SwapAdjacent(PipelineOrder, k) : k \in 1..(Len(PipelineOrder) - 1)}
    \cup {Rotate(PipelineOrder, k) : k \in 1..(Len(PipelineOrder) - 1)}

\* level-21 Elf Fighters named "A": several checks report for each of them
OrderSubjects ==
    {c \in ValidationSubjects :
        /\ c.name = "A" /\ c.race = "Elf" /\ c.class = "Fighter"
        /\ c.level = 21 /\ c.backstory = "saga"}

InitOrder ==
    /\ store = <<>>
    /\ nextId = 1
    /\ ops = 0
    /\ last = NoCall
    /\ Untouched
    /\ subject \in OrderSubjects

ValidateInOrder(order) ==
    /\ last' = [op |-> "validateCharacterInOrder", order |-> order,
                result |-> ValidateCharacterInOrder(subject, order)]
    /\ UNCHANGED <<store, nextId, ops, subject>>
    /\ UNCHANGED elsewhere

NextOrder == \E order \in CheckOrders : ValidateInOrder(order)

SpecOrder == InitOrder /\ [][NextOrder]_vars

-----------------------------------------------------------------------------
(* getNewSpellsForLevel applied to character values *)

\* characters of every level 1..20, of the two classes with a spell-learning
\* table and of two without, with and without spells learned before
SpellSubjects ==
    { [id |-> "subject", name |-> "Bob", race |-> "Human", class |-> c, level |-> l,
       experience |-> 0, status |-> StatusActive,
       abilityScores |-> [strength |-> 10, dexterity |-> 12, constitution |-> 12,
                          intelligence |-> 14, wisdom |-> 14, charisma |-> 12],
       hitPoints |-> 10, armorClass |-> 10, inventory |-> <<>>, spells |-> sp] :
      c \in {"Wizard", "Cleric", "Fighter", "Bard"}, l \in 1..20,
      sp \in {<<>>, <<Spell("Shield", 1, "Abjuration")>>} }

InitSpells ==
    /\ store = <<>>
    /\ nextId = 1
    /\ ops = 0
    /\ last = NoCall
    /\ Untouched
    /\ subject \in SpellSubjects

\* getNewSpellsForLevel(subject)
GetNewSpellsForLevelCall ==
    /\ last = NoCall
    /\ last' = [op |-> "getNewSpellsForLevel", before |-> subject,
                result |-> GetNewSpellsForLevel(subject)]
    /\ UNCHANGED <<store, nextId, ops, subject>>
    /\ UNCHANGED elsewhere

NextSpells == GetNewSpellsForLevelCall

SpecSpells == InitSpells /\ [][NextSpells]_vars

-----------------------------------------------------------------------------
(* prepareDailySpells applied to character values *)

\* n known spells, in learn order
KnownSpells(n) == [i \in 1..n |-> Spell("spell-" \o ToString(i), 1, "Evocation")]

\* characters of every level 1..20 and wisdom 3..20, knowing no spell, a few
\* spells or more spells than any of them can prepare, or having no spell list
PrepareSubjects ==
    { Spread(
        [id |-> "subject", name |-> "Bob", race |-> "Human", class |-> "Cleric",
         level |-> l, experience |-> 0, status |-> StatusActive,
         abilityScores |-> [strength |-> 10, dexterity |-> 12, constitution |-> 12,
                            intelligence |-> 14, wisdom |-> w, charisma |-> 12],
         hitPoints |-> 10, armorClass |-> 10, inventory |-> <<>>],
        sp) :
      l \in 1..20, w \in 3..20,
      sp \in {<<>>, [spells |-> <<>>], [spells |-> KnownSpells(4)],
              [spells |-> KnownSpells(16)]} }

InitPrepare ==
    /\ store = <<>>
    /\ nextId = 1
    /\ ops = 0
    /\ last = NoCall
    /\ Untouched
    /\ subject \in PrepareSubjects

\* prepareDailySpells(subject); arg is the argument object as the call leaves it
PrepareDailySpellsCall ==
    /\ last = NoCall
    /\ last' = [op |-> "prepareDailySpells", before |-> subject, arg |-> subject,
                result |-> PrepareDailySpells(subject)]
    /\ UNCHANGED <<store, nextId, ops, subject>>
    /\ UNCHANGED elsewhere

NextPrepare == PrepareDailySpellsCall

SpecPrepare == InitPrepare /\ [][NextPrepare]_vars

-----------------------------------------------------------------------------
(* Export and import of characters, by CharacterExportSystem and CharacterManager *)

MaxExportOps == 4

\* the characters handed to CharacterExportSystem.exportCharacter
ExportSubjects ==
    LET base == [id |-> "subject", name |-> "Bob", race |-> "Human",
                 class |-> "Fighter", level |-> 1, experience |-> 0,
                 status |-> StatusActive,
                 abilityScores |-> [strength |-> 15, dexterity |-> 14,
                                    constitution |-> 13, intelligence |-> 14,
                                    wisdom |-> 13, charisma |-> 8],
                 hitPoints |-> 10, armorClass |-> 10, inventory |-> <<>>,
                 spells |-> <<>>, backstory |-> "saga",
                 traits |-> [personality |-> <<"brave">>, ideals |-> <<>>,
                             bonds |-> <<"kin">>, flaws |-> <<>>]]
    IN  { base,
          Spread(base, [campaignId |-> "camp-1", level |-> 5,
                        skills |-> <<<<"stealth", 1>>>>]),
          Spread(base, [name |-> "A", campaignId |-> "camp-1"]),
          Spread(base, [multiclass |-> <<ClassLevel("Rogue", 2)>>]) }

\* the createCharacter calls whose characters are exported by the manager
ExportCreateRequests ==
    {r \in CreateRequests : r.data # <<>> /\ "class" \notin DOMAIN r.data}

\* the version strings an envelope is given by its holder
EnvelopeVersions == {"1.0.0", "1.1.0", "2.0.0"}

\* the times at which calls are made: the start, the age limit after it, and
\* one millisecond later
ClockTimes ==
    {StartTime, Later(StartTime, MaxExportAgeDays, 0), Later(StartTime, MaxExportAgeDays, 1)}

Before(a, b) == a.day < b.day \/ (a.day = b.day /\ a.ms < b.ms)

\* an envelope in the caller's hands: the export data, when it was exported,
\* and the character it was exported from while it is the unmodified result of
\* CharacterExportSystem.exportCharacter
Held(exportData, time, character) ==
    [data |-> exportData, madeAt |-> time, source |-> character]

InitExport ==
    /\ store = <<>>
    /\ nextId = 1
    /\ ops = 0
    /\ last = NoCall
    /\ Untouched
    /\ subject \in ExportSubjects

\* time passes between two calls
Tick ==
    /\ \E t \in ClockTimes : Before(now, t) /\ now' = t
    /\ UNCHANGED <<store, nextId, ops, last, subject, envelope, campaigns, handler,
                   procs>>

\* CharacterExportSystem.exportCharacter(subject)
ExportCharacterCall ==
    LET result == ExportCharacter(subject, Uuid(nextId), now)
    IN  /\ ops < MaxExportOps
        /\ ops' = ops + 1
        /\ last' = [op |-> "exportCharacter", before |-> subject, at |-> now,
                    result |-> result]
        /\ IF ~result.threw /\ result.success
           THEN /\ envelope' = Some(Held(result.data, now, Some(subject)))
                /\ nextId' = nextId + 1
           ELSE UNCHANGED <<envelope, nextId>>
        /\ UNCHANGED <<store, subject, now, campaigns, handler, procs>>

\* CharacterManager.exportCharacter(characterId)
ManagerExportCharacterCall(characterId) ==
    LET character == GetCharacterById(store, characterId)
    IN  /\ ops < MaxExportOps
        /\ ops' = ops + 1
        /\ IF character = <<>>
           THEN /\ last' = [op |-> "managerExportCharacter", outcome |-> "notFound",
                            id |-> characterId, at |-> now]
                /\ UNCHANGED envelope
           ELSE /\ last' = [op |-> "managerExportCharacter", outcome |-> "ok",
                            id |-> characterId, at |-> now,
                            ret |-> ManagerExport(character[1], now)]
                /\ envelope' = Some(Held(ManagerExport(character[1], now), now, Absent))
        /\ UNCHANGED <<store, nextId, subject, now, campaigns, handler, procs>>

\* the holder rewrites the version of the envelope
SetVersion(v) ==
    /\ ops < MaxExportOps
    /\ envelope # <<>>
    /\ envelope[1].data.version # v
    /\ ops' = ops + 1
    /\ envelope' = Some(Held(Spread(envelope[1].data, [version |-> v]),
                             envelope[1].madeAt, Absent))
    /\ UNCHANGED <<store, nextId, last, subject, now, campaigns, handler, procs>>

\* the holder rewrites the name of the character in the envelope
SetName(n) ==
    /\ ops < MaxExportOps
    /\ envelope # <<>>
    /\ envelope[1].data.character.name # n
    /\ ops' = ops + 1
    /\ envelope' = Some(Held(Spread(envelope[1].data,
                                    [character |-> Spread(envelope[1].data.character,
                                                          [name |-> n])]),
                             envelope[1].madeAt, Absent))
    /\ UNCHANGED <<store, nextId, last, subject, now, campaigns, handler, procs>>

\* CharacterExportSystem.importCharacter(envelope)
ImportCharacterCall ==
    /\ ops < MaxExportOps
    /\ envelope # <<>>
    /\ ops' = ops + 1
    /\ last' = [op |-> "importCharacter", held |-> envelope[1], at |-> now,
                uuid |-> Uuid(nextId),
                result |-> ImportCharacter(envelope[1].data, Uuid(nextId), now)]
    /\ nextId' = IF ImportReconstructs(envelope[1].data, now) THEN nextId + 1
                 ELSE nextId
    /\ UNCHANGED <<store, subject, now, envelope, campaigns, handler, procs>>

\* CharacterManager.importCharacter(envelope)
ManagerImportCharacterCall ==
    /\ ops < MaxExportOps
    /\ envelope # <<>>
    /\ ops' = ops + 1
    /\ IF ManagerImportThrows(envelope[1].data)
       THEN /\ last' = [op |-> "managerImportCharacter", outcome |-> "versionError",
                        held |-> envelope[1], at |-> now, uuid |-> Uuid(nextId)]
            /\ UNCHANGED <<store, nextId>>
       ELSE /\ last' = [op |-> "managerImportCharacter", outcome |-> "ok",
                        held |-> envelope[1], at |-> now, uuid |-> Uuid(nextId),
                        ret |-> ManagerImported(envelope[1].data, Uuid(nextId))]
            /\ store' = SaveCharacter(store,
                                      ManagerImported(envelope[1].data, Uuid(nextId)))
            /\ nextId' = nextId + 1
    /\ UNCHANGED <<subject, now, envelope, campaigns, handler, procs>>

NextExport ==
    \/ Tick
    \/ ExportCharacterCall
    \/ \E r \in ExportCreateRequests :
           /\ ops < MaxExportOps
           /\ store = <<>>
           /\ ops' = ops + 1
           /\ CreateCharacter(r.data, r.method)
    \/ \E id \in StoredIds \cup {UnknownId} : ManagerExportCharacterCall(id)
    \/ \E v \in EnvelopeVersions : SetVersion(v)
    \/ \E n \in {"A", "Bob"} : SetName(n)
    \/ ImportCharacterCall
    \/ ManagerImportCharacterCall

SpecExport == InitExport /\ [][NextExport]_vars

-----------------------------------------------------------------------------
(* Two browser tabs, each running one operation of CharacterManager on the
   shared localStorage *)

\* the operations a tab runs
TabOperations ==
    {[op |-> "levelUpCharacter", data |-> <<>>]} \cup
    {[op |-> "updateCharacterBackground", data |-> d] : d \in BackgroundRequests}

\* a tab about to run an operation on the character of an id
Tab(operation, characterId) ==
    [op |-> operation.op, data |-> operation.data, id |-> characterId,
     pc |-> "getCharacterById", character |-> <<>>, characters |-> <<>>]

\* what the operation of a tab makes of the character it found
TabUpdated(tab, found) ==
    IF tab.op = "levelUpCharacter" THEN LevelledUp(found)
    ELSE BackgroundUpdated(found, tab.data)

\* two characters are stored, and each tab works on one of them
InitTabs ==
    /\ \E r1 \in PlainCreateRequests, r2 \in CreateRequests :
           store = SaveCharacter(
                       SaveCharacter(<<>>, NewCharacter(r1.data, r1.method, Uuid(1))),
                       NewCharacter(r2.data, r2.method, Uuid(2)))
    /\ nextId = 3
    /\ ops = 0
    /\ last = NoCall
    /\ now = StartTime
    /\ envelope = <<>>
    /\ campaigns = <<>>
    /\ handler = <<>>
    /\ subject = NoSubject
    /\ \E o1, o2 \in TabOperations : procs = <<Tab(o1, Uuid(1)), Tab(o2, Uuid(2))>>

\* this.getCharacterById(characterId) and the changes made to the object found
TabGetCharacterById(t) ==
    LET found == GetCharacterById(store, procs[t].id)
    IN  /\ procs[t].pc = "getCharacterById"
        /\ procs' = [procs EXCEPT ![t] =
               IF found = <<>> \/ (procs[t].op = "updateCharacterBackground"
                                    /\ BackgroundThrows(found[1], procs[t].data))
               THEN [@ EXCEPT !.pc = "threw"]
               ELSE [@ EXCEPT !.pc = "getAllCharacters",
                              !.character = Some(TabUpdated(procs[t], found[1]))]]
        /\ UNCHANGED <<store, nextId, ops, last, subject, now, envelope, campaigns,
                       handler>>

\* saveCharacter: const characters = this.getAllCharacters()
TabGetAllCharacters(t) ==
    /\ procs[t].pc = "getAllCharacters"
    /\ procs' = [procs EXCEPT ![t] = [@ EXCEPT !.pc = "setItem", !.characters = store]]
    /\ UNCHANGED <<store, nextId, ops, last, subject, now, envelope, campaigns,
                   handler>>

\* saveCharacter: the list read is changed and written by localStorage.setItem
TabSetItem(t) ==
    /\ procs[t].pc = "setItem"
    /\ store' = SaveCharacter(procs[t].characters, procs[t].character[1])
    /\ procs' = [procs EXCEPT ![t] = [@ EXCEPT !.pc = "returned"]]
    /\ UNCHANGED <<nextId, ops, last, subject, now, envelope, campaigns, handler>>

NextTabs ==
    \E t \in {1, 2} :
        \/ TabGetCharacterById(t)
        \/ TabGetAllCharacters(t)
        \/ TabSetItem(t)

SpecTabs == InitTabs /\ [][NextTabs]_vars

-----------------------------------------------------------------------------
(* The create-character request of the campaign route, with CampaignManager *)

MaxRequests == 2

\* CampaignStorage.getCampaignById, as an index into the stored campaigns
CampaignIndex(stored, campaignId) ==
    IF \E i \in 1..Len(stored) : stored[i].id = campaignId
    THEN CHOOSE i \in 1..Len(stored) :
             stored[i].id = campaignId /\ \A j \in 1..(i - 1) : stored[j].id # campaignId
    ELSE 0

\* CampaignStorage.getCampaignById, as an optional value
GetCampaignById(stored, campaignId) ==
    IF CampaignIndex(stored, campaignId) = 0 THEN Absent
    ELSE Some(stored[CampaignIndex(stored, campaignId)])

\* CampaignStorage.saveCampaign: the campaign of that id is replaced, a new one
\* is added
SaveCampaign(stored, campaign) ==
    IF CampaignIndex(stored, campaign.id) = 0 THEN Append(stored, campaign)
    ELSE [stored EXCEPT ![CampaignIndex(stored, campaign.id)] = campaign]

\* CampaignManager.createCampaign
CreateCampaign(campaignData, uuid) ==
    [id         |-> uuid,
     name       |-> OrString(Get(campaignData, "name"), "Untitled Campaign"),
     characters |-> <<>>,
     encounters |-> <<>>]

\* updateCampaign with the stored campaign spread over the updates
UpdateCampaignStoredWins(stored, campaignId, updates) ==
    LET campaign == GetCampaignById(stored, campaignId)
    IN  SaveCampaign(stored, Spread(Spread(updates, campaign[1]), [id |-> campaign[1].id]))

\* CampaignManager.updateCampaign for a campaign that is stored: the campaigns
\* stored afterwards
UpdateCampaign(stored, campaignId, updates) ==
    LET campaign == GetCampaignById(stored, campaignId)
    IN  SaveCampaign(stored, Spread(Spread(campaign[1], updates), [id |-> campaign[1].id]))

\* the lists CharacterValidation.validateCharacterCreation may return
CreationErrors(newCharacterData) == {<<>>, <<"Invalid character data">>}

\* the forms posted with intent create-character
CreateCharacterForms ==
    {[name |-> n, race |-> "Elf", class |-> c, generationMethod |-> m] :
        n \in {"", "Bob"}, c \in {"Fighter", "Wizard"}, m \in {"standard", "heroic"}}

\* two campaigns made by createCampaign, no character
InitHandler ==
    /\ store = <<>>
    /\ campaigns = SaveCampaign(SaveCampaign(<<>>, CreateCampaign([name |-> "Mines"], Uuid(1))),
                                CreateCampaign(<<>>, Uuid(2)))
    /\ nextId = 3
    /\ ops = 0
    /\ last = NoCall
    /\ now = StartTime
    /\ envelope = <<>>
    /\ handler = <<>>
    /\ procs = <<>>
    /\ subject = NoSubject

\* a request with intent create-character arrives: newCharacterData is built
Request(form, campaignId) ==
    /\ handler = <<>>
    /\ ops < MaxRequests
    /\ ops' = ops + 1
    /\ handler' = Some([pc |-> "validateCharacterCreation",
                        newCharacterData |-> [name |-> form.name, race |-> form.race,
                                              class |-> form.class,
                                              campaignId |-> campaignId],
                        generationMethod |-> form.generationMethod,
                        campaignId |-> campaignId,
                        before |-> [store |-> store, campaigns |-> campaigns]])
    /\ last' = [op |-> "create-character", outcome |-> "pending"]
    /\ UNCHANGED <<store, nextId, subject, now, envelope, campaigns, procs>>

\* the response of the handler, with what was stored when the request arrived
Response(outcomeName, request, character) ==
    [op |-> "create-character", outcome |-> outcomeName,
     campaignId |-> request.campaignId, before |-> request.before,
     character |-> character]

\* creationErrors is computed; with errors the response has status 400
HandlerValidate ==
    /\ handler # <<>>
    /\ handler[1].pc = "validateCharacterCreation"
    /\ \E creationErrors \in CreationErrors(handler[1].newCharacterData) :
           IF Len(creationErrors) > 0
           THEN /\ handler' = <<>>
                /\ last' = Response("invalid", handler[1], Absent)
           ELSE /\ handler' = Some([handler[1] EXCEPT !.pc = "createCharacter"])
                /\ UNCHANGED last
    /\ UNCHANGED <<store, nextId, ops, subject, now, envelope, campaigns, procs>>

\* characterManager.createCharacter(newCharacterData, generationMethod)
HandlerCreateCharacter ==
    /\ handler # <<>>
    /\ handler[1].pc = "createCharacter"
    /\ LET newCharacter == NewCharacter(handler[1].newCharacterData,
                                        handler[1].generationMethod, Uuid(nextId))
       IN  /\ store' = SaveCharacter(store, newCharacter)
           /\ nextId' = IF UsesUuid(handler[1].newCharacterData) THEN nextId + 1
                        ELSE nextId
           /\ handler' = Some(Spread([handler[1] EXCEPT !.pc = "getCampaignById"],
                                     [newCharacter |-> newCharacter]))
    /\ UNCHANGED <<ops, last, subject, now, envelope, campaigns, procs>>

\* the campaign is looked up; when there is one, the id of the new character
\* is pushed onto its list and updateCampaign stores it; then the response
HandlerUpdateCampaign ==
    /\ handler # <<>>
    /\ handler[1].pc = "getCampaignById"
    /\ LET campaign == GetCampaignById(campaigns, handler[1].campaignId)
       IN  campaigns' =
               IF campaign = <<>> THEN campaigns
               ELSE UpdateCampaign(campaigns, campaign[1].id,
                        [campaign[1] EXCEPT
                            !.characters = Append(@, handler[1].newCharacter.id)])
    /\ handler' = <<>>
    /\ last' = Response("ok", handler[1], Some(handler[1].newCharacter))
    /\ UNCHANGED <<store, nextId, ops, subject, now, envelope, procs>>

NextHandler ==
    \/ \E form \in CreateCharacterForms, campaignId \in {Uuid(1), Uuid(2), UnknownId} :
           Request(form, campaignId)
    \/ HandlerValidate
    \/ HandlerCreateCharacter
    \/ HandlerUpdateCampaign

SpecHandler == InitHandler /\ [][NextHandler]_vars

-----------------------------------------------------------------------------
(* Every operation of CharacterManager that writes the stored list *)

MaxStoreOps == 4

\* the characters callers hand to saveCharacter: a stored character renamed,
\* and a wizard who knows a spell, under an id of the caller's
SaveSubjects ==
    {Spread(store[i], [name |-> "Renamed"]) : i \in 1..Len(store)} \cup
    {Spread(NewCharacter([id |-> "custom-id", name |-> "Eve", class |-> "Wizard",
                          level |-> 3], "standard", Uuid(nextId)),
            [spells |-> <<Spell("Shield", 1, "Abjuration")>>])}

\* CharacterManager.saveCharacter(character)
SaveCharacterCall(character) ==
    /\ store' = SaveCharacter(store, character)
    /\ last' = [op |-> "saveCharacter", character |-> character, before |-> store]
    /\ UNCHANGED <<nextId, subject>>
    /\ UNCHANGED elsewhere

NextStore ==
    \/ \E r \in PlainCreateRequests, id \in {Absent} \cup {Some(i) : i \in StoredIds} :
           /\ ops < MaxStoreOps
           /\ ops' = ops + 1
           /\ CreateCharacter(WithId(r.data, id), r.method)
    \/ \E id \in StoredIds \cup {UnknownId} :
           /\ ops < MaxStoreOps
           /\ ops' = ops + 1
           /\ LevelUpCharacter(id)
    \/ \E id \in StoredIds \cup {UnknownId}, d \in BackgroundRequests :
           /\ ops < MaxStoreOps
           /\ ops' = ops + 1
           /\ UpdateCharacterBackground(id, d)
    \/ \E id \in StoredIds :
           /\ ops < MaxStoreOps
           /\ ManagerExportCharacterCall(id)
    \/ /\ ops < MaxStoreOps
       /\ ManagerImportCharacterCall
    \/ \E character \in SaveSubjects :
           /\ ops < MaxStoreOps
           /\ ops' = ops + 1
           /\ SaveCharacterCall(character)

SpecStore == Init /\ [][NextStore]_vars

-----------------------------------------------------------------------------
(* canMulticlass and performMulticlass applied to character values *)

TargetClasses == {"Fighter", "Wizard", "Rogue", "Paladin", "Cleric", "Bard"}

MulticlassSubjects ==
    { Spread(
        [id |-> "subject", name |-> "Bob", race |-> "Human", class |-> c, level |-> 1,
         experience |-> 0, status |-> StatusActive,
         abilityScores |-> [strength |-> st, dexterity |-> dx, constitution |-> 14,
                            intelligence |-> in, wisdom |-> 10, charisma |-> ch],
         hitPoints |-> 10, armorClass |-> 10, inventory |-> <<>>, spells |-> <<>>],
        m) :
        c \in {"Fighter", "Wizard", "Bard"}, st \in {12, 13}, dx \in {12, 13},
        in \in {12, 13}, ch \in {12, 13},
        m \in {<<>>, [multiclass |-> <<ClassLevel("Rogue", 1)>>]} }

InitMulticlass ==
    /\ store = <<>>
    /\ nextId = 1
    /\ ops = 0
    /\ last = NoCall
    /\ Untouched
    /\ subject \in MulticlassSubjects

\* canMulticlass(subject, targetClass)
CanMulticlassCall(targetClass) ==
    /\ last' = [op |-> "canMulticlass", target |-> targetClass, before |-> subject,
                result |-> CanMulticlass(subject, targetClass)]
    /\ UNCHANGED <<store, nextId, ops, subject>>
    /\ UNCHANGED elsewhere

\* performMulticlass refusing the primary class only, whatever the prerequisites
PerformMulticlassThrowsOnlySameClass(character, newClass) ==
    character.class = newClass

\* whether performMulticlass throws 'Cannot multiclass into ...'
PerformMulticlassThrows(character, newClass) == ~CanMulticlass(character, newClass)

\* subject = performMulticlass(subject, newClass), or the throw; arg is the
\* argument object as the call leaves it
PerformMulticlassCall(newClass) ==
    /\ "multiclass" \in DOMAIN subject => Len(subject.multiclass) < MaxMulticlass
    /\ IF PerformMulticlassThrows(subject, newClass)
       THEN /\ last' = [op |-> "performMulticlass", target |-> newClass,
                        before |-> subject, arg |-> subject,
                        outcome |-> "ineligible", ret |-> Absent]
            /\ UNCHANGED subject
       ELSE /\ last' = [op |-> "performMulticlass", target |-> newClass,
                        before |-> subject, arg |-> subject,
                        outcome |-> "ok",
                        ret |-> Some(PerformMulticlass(subject, newClass))]
            /\ subject' = PerformMulticlass(subject, newClass)
    /\ UNCHANGED <<store, nextId, ops>>
    /\ UNCHANGED elsewhere

NextMulticlass ==
    \/ \E t \in TargetClasses : CanMulticlassCall(t)
    \/ \E t \in TargetClasses : PerformMulticlassCall(t)

SpecMulticlass == InitMulticlass /\ [][NextMulticlass]_vars

-----------------------------------------------------------------------------
(* calculateMulticlassHitPoints applied to character values *)

\* the classes of the hit dice table and two it does not list
HitPointClasses ==
    {"Barbarian", "Fighter", "Paladin", "Ranger", "Wizard", "Rogue", "Cleric",
     "Druid", "Bard", "Monk"}

\* characters of every constitution 3..20, differing in their other properties too
HitPointSubjects ==
    { [id |-> "subject", name |-> "Bob", race |-> "Human", class |-> c, level |-> l,
       experience |-> 0, status |-> StatusActive,
       abilityScores |-> [strength |-> 10 + l, dexterity |-> 12, constitution |-> con,
                          intelligence |-> 12, wisdom |-> 10, charisma |-> 12],
       hitPoints |-> 10 * l, armorClass |-> 10, inventory |-> <<>>, spells |-> <<>>] :
      c \in {"Fighter", "Bard"}, l \in {1, 5}, con \in 3..20 }

InitHitPoints ==
    /\ store = <<>>
    /\ nextId = 1
    /\ ops = 0
    /\ last = NoCall
    /\ Untouched
    /\ subject \in HitPointSubjects

\* calculateMulticlassHitPoints(subject, newClass)
CalculateMulticlassHitPointsCall(newClass) ==
    /\ last' = [op |-> "calculateMulticlassHitPoints", target |-> newClass,
                before |-> subject,
                result |-> CalculateMulticlassHitPoints(subject, newClass)]
    /\ UNCHANGED <<store, nextId, ops, subject>>
    /\ UNCHANGED elsewhere

NextHitPoints == \E c \in HitPointClasses : CalculateMulticlassHitPointsCall(c)

SpecHitPoints == InitHitPoints /\ [][NextHitPoints]_vars

-----------------------------------------------------------------------------
(* Properties *)

PersistingOps == {"createCharacter", "levelUpCharacter", "updateCharacterBackground"}

\* validateCharacter returns a result that lists at least one error
ReportsErrors(character) ==
    LET result == ValidateCharacter(character)
    IN  ~result.threw /\ Len(result.errors) > 0

\* C1: when validateCharacter reports an error for the candidate character a
\* persisting lifecycle operation built, the operation writes nothing: the
\* stored list after the operation is the stored list before it.
C1_NoWriteOnValidationFailure ==
    [][(/\ last'.op \in PersistingOps
        /\ last'.ret # <<>>
        /\ ReportsErrors(last'.ret[1]))
       => store' = store]_vars

\* C2: after any sequence of createCharacter calls without a level and of
\* levelUpCharacter calls, every stored character has 1 <= level <= 20.
C2_StoredLevelsInRange ==
    \A i \in 1..Len(store) : store[i].level >= 1 /\ store[i].level <= 20

\* C3: starting without a multiclass list (or with distinct classes other than the
\* primary class), after any sequence of successful performMulticlass calls the
\* multiclass list names no class twice and does not name the primary class.
C3_MulticlassDistinctNotPrimary ==
    "multiclass" \in DOMAIN subject =>
        /\ \A i, j \in 1..Len(subject.multiclass) :
               i # j => EntryClass(subject.multiclass[i]) # EntryClass(subject.multiclass[j])
        /\ \A i \in 1..Len(subject.multiclass) :
               EntryClass(subject.multiclass[i]) # subject.class

\* C4: in every result validateCharacter returns, isValid is true exactly when
\* errors is empty, whatever the warnings are.
C4_IsValidIffNoErrors ==
    (last.op = "validateCharacter" /\ ~last.result.threw) =>
        (last.result.isValid <=> last.result.errors = <<>>)

\* C4 witness: a result with warnings and no errors, which is valid
C4_Witness ==
    /\ last.op = "validateCharacter"
    /\ ~last.result.threw
    /\ last.result.errors = <<>>
    /\ Len(last.result.warnings) > 1
    /\ last.result.isValid

\* C5: validateCharacter returns a ValidationResult for every character, also
\* for one whose multiclass list is non-empty: it never throws.
C5_ValidateAlwaysReturns ==
    last.op = "validateCharacter" => ~last.result.threw

\* C6: levelUpCharacter and updateCharacterBackground called with an id that no
\* stored character has fail with not-found, return no character and leave the
\* stored list unchanged.
C6_UnknownIdNotFound ==
    [][(/\ last'.op \in {"levelUpCharacter", "updateCharacterBackground"}
        /\ \A i \in 1..Len(store) : store[i].id # last'.id)
       => (/\ last'.outcome = "notFound"
           /\ last'.ret = <<>>
           /\ store' = store)]_vars

\* C6 witness: a level-up of an unknown id was refused while characters are stored
C6_Witness ==
    /\ last.op = "levelUpCharacter"
    /\ last.outcome = "notFound"
    /\ Len(store) > 0
    /\ last.id \notin StoredIds

\* C7: a successful levelUpCharacter(id) on a character of level L returns a
\* character with the same id, level L+1 and experience (L+1)*300, whatever the
\* experience was, and the stored record of that id equals the returned one.
C7_LevelUpLevelAndExperience ==
    (last.op = "levelUpCharacter" /\ last.outcome = "ok") =>
        /\ last.ret[1].id = last.id
        /\ last.ret[1].id = last.before[1].id
        /\ last.ret[1].level = last.before[1].level + 1
        /\ last.ret[1].experience = (last.before[1].level + 1) * 300
        /\ GetCharacterById(store, last.id) = last.ret

\* C7 witness: a level-up of a character whose experience was not level * 300
C7_Witness ==
    /\ last.op = "levelUpCharacter"
    /\ last.outcome = "ok"
    /\ last.before[1].experience # last.before[1].level * 300
    /\ last.before[1].level = 3

\* the first ability, in the fixed order, whose score is below 20; 0 if none
FirstImprovable(character) ==
    IF \E i \in 1..Len(Abilities) : character.abilityScores[Abilities[i]] < 20
    THEN CHOOSE i \in 1..Len(Abilities) :
             /\ character.abilityScores[Abilities[i]] < 20
             /\ \A j \in 1..(i - 1) : character.abilityScores[Abilities[j]] >= 20
    ELSE 0

\* C8: levelUpCharacter improves an ability score exactly when the new level is a
\* multiple of 4, and then raises exactly one score, that of the first improvable
\* ability in the fixed order (none if no ability is improvable); at every other
\* new level the six scores are unchanged.
C8_AbilityImprovementEveryFourthLevel ==
    (last.op = "levelUpCharacter" /\ last.outcome = "ok") =>
        LET old == last.before[1].abilityScores
            new == last.ret[1].abilityScores
            first == FirstImprovable(last.before[1])
        IN  IF last.ret[1].level % 4 = 0 /\ first # 0
            THEN \A i \in 1..Len(Abilities) :
                     IF i = first THEN new[Abilities[i]] > old[Abilities[i]]
                     ELSE new[Abilities[i]] = old[Abilities[i]]
            ELSE new = old

\* C8 witness: a level-up from 3 to 4 of a character whose strength cannot be
\* improved raised dexterity
C8_Witness ==
    /\ last.op = "levelUpCharacter"
    /\ last.outcome = "ok"
    /\ last.before[1].level = 3
    /\ last.before[1].abilityScores["strength"] = 20
    /\ last.ret[1].abilityScores["dexterity"]
       = last.before[1].abilityScores["dexterity"] + 1

\* C9: after updateCharacterBackground on an existing id, each of backstory,
\* personality, ideals, bonds, flaws equals the supplied value if one was
\* supplied (an empty string or list included) and is unchanged otherwise, and
\* every other property of the character is unchanged.
C9_BackgroundReplacesSuppliedFields ==
    (last.op = "updateCharacterBackground" /\ last.outcome = "ok") =>
        LET old == last.before[1]
            new == GetCharacterById(store, last.id)[1]
        IN  /\ new.backstory = IF "backstory" \in DOMAIN last.data
                               THEN last.data.backstory ELSE old.backstory
            /\ \A i \in 1..Len(TraitTypes) :
                   new.traits[TraitTypes[i]]
                   = IF TraitTypes[i] \in DOMAIN last.data
                     THEN last.data[TraitTypes[i]] ELSE old.traits[TraitTypes[i]]
            /\ DOMAIN new = DOMAIN old
            /\ \A k \in (DOMAIN old) \ {"backstory", "traits"} : new[k] = old[k]

\* C10: canMulticlass is false when the target class is the primary class, and
\* otherwise true exactly when no prerequisite of the target class is unmet
\* (score >= minimum), so always for a class without prerequisites.
C10_CanMulticlass ==
    last.op = "canMulticlass" =>
        (last.result <=>
            /\ last.target # last.before.class
            /\ ~\E p \in MulticlassPrerequisites(last.target) :
                   last.before.abilityScores[p[1]] < p[2])

\* C10 witness: the primary class was refused although its prerequisites are met
C10_Witness ==
    /\ last.op = "canMulticlass"
    /\ last.target = last.before.class
    /\ last.target = "Fighter"
    /\ last.before.abilityScores["strength"] >= 13
    /\ last.before.abilityScores["dexterity"] >= 13
    /\ ~last.result

\* the integer q with 2q <= n < 2q + 2: n / 2 rounded down
FloorOfHalf(n) == CHOOSE q \in -64..64 : 2 * q <= n /\ n < 2 * q + 2

\* C11: for every class and every constitution 3..20, calculateMulticlassHitPoints
\* returns max(1, floor(hitDie/2) + floor((constitution-10)/2)), with hitDie from
\* the table and 8 for an unlisted class; the result is at least 1 and is a
\* function of the class and the constitution only; Fighter with 14 gives 7.
C11_MulticlassHitPoints ==
    last.op = "calculateMulticlassHitPoints" =>
        LET hitDie == IF HitDiceByClass(last.target) = <<>> THEN 8
                      ELSE HitDiceByClass(last.target)[1]
            constitution == last.before.abilityScores["constitution"]
            sum == FloorOfHalf(hitDie) + FloorOfHalf(constitution - 10)
        IN  /\ last.result = IF sum < 1 THEN 1 ELSE sum
            /\ last.result >= 1
            /\ (last.target = "Fighter" /\ constitution = 14) => last.result = 7
            /\ last.target \in {"Bard", "Monk"} =>
                   last.result = Max(1, 4 + FloorOfHalf(constitution - 10))

\* C11 witness: Wizard with constitution 3, where the sum is negative and the
\* result is 1
C11_Witness ==
    /\ last.op = "calculateMulticlassHitPoints"
    /\ last.target = "Wizard"
    /\ last.before.abilityScores["constitution"] = 3
    /\ last.result = 1

\* C12: performMulticlass fails with the eligibility error and returns no
\* character exactly when canMulticlass is false for the same arguments; when
\* canMulticlass is true it returns a character.
C12_PerformMulticlassEligibility ==
    last.op = "performMulticlass" =>
        IF CanMulticlass(last.before, last.target)
        THEN last.outcome = "ok" /\ last.ret # <<>>
        ELSE last.outcome = "ineligible" /\ last.ret = <<>>

\* C12 witness: a Wizard with strength 12 was refused Paladin, which is not its
\* primary class
C12_Witness ==
    /\ last.op = "performMulticlass"
    /\ last.target = "Paladin"
    /\ last.before.class = "Wizard"
    /\ last.before.abilityScores["strength"] = 12
    /\ last.outcome = "ineligible"
    /\ last.ret = <<>>

\* the multiclass list of a character, empty when it has none
MulticlassListOf(character) ==
    IF "multiclass" \in DOMAIN character THEN character.multiclass ELSE <<>>

\* C13: a successful performMulticlass returns a value whose hitPoints are the old
\* ones plus calculateMulticlassHitPoints, whose spells are the old ones followed
\* by the new class's starting set when the new class is a designated
\* spellcasting class and the old ones otherwise, and whose multiclass list is the
\* old list extended by the new class; every other property equals the input's,
\* the input is not modified and nothing is stored.
C13_PerformMulticlassFrame ==
    (last.op = "performMulticlass" /\ last.outcome = "ok") =>
        LET old == last.before
            new == last.ret[1]
        IN  /\ new.hitPoints
               = old.hitPoints + CalculateMulticlassHitPoints(old, last.target)
            /\ new.spells
               = IF last.target \in {"Wizard", "Cleric", "Druid", "Paladin", "Ranger"}
                 THEN old.spells \o GetInitialClassSpells(last.target)
                 ELSE old.spells
            /\ Len(new.multiclass) = Len(MulticlassListOf(old)) + 1
            /\ SubSeq(new.multiclass, 1, Len(MulticlassListOf(old)))
               = MulticlassListOf(old)
            /\ EntryClass(new.multiclass[Len(new.multiclass)]) = last.target
            /\ \A k \in (DOMAIN old) \ {"hitPoints", "spells", "multiclass"} :
                   k \in DOMAIN new /\ new[k] = old[k]
            /\ DOMAIN new = (DOMAIN old) \cup {"multiclass"}
            /\ last.arg = old
            /\ store = <<>>

\* whether the subject has multiclass entries
HasMulticlassEntries(character) ==
    "multiclass" \in DOMAIN character /\ Len(character.multiclass) > 0

\* primary level plus the levels of the multiclass entries that state one
CombinedLevel(character) ==
    character.level
    + SumSeq([i \in 1..Len(character.multiclass) |->
                 IF "level" \in DOMAIN character.multiclass[i]
                 THEN character.multiclass[i].level ELSE 0])

\* C14: for every character with multiclass entries (one produced by
\* performMulticlass included) validateCharacter returns a result that lists the
\* total-level error when primary level plus multiclass levels exceeds 20 and
\* does not list it when the combined level is 20 or less.
C14_TotalLevelError ==
    (last.op = "validateCharacter" /\ HasMulticlassEntries(subject)) =>
        /\ ~last.result.threw
        /\ Includes(last.result.errors, "Total character levels cannot exceed 20")
           <=> CombinedLevel(subject) > 20

\* whether a message starts with the capitalised name of the ability
NamesAbility(message, ability) ==
    /\ Len(message) >= Len(ability)
    /\ SubSeq(message, 1, Len(ability)) = Capitalize(ability)

OutOfRange(score) == score < 3 \/ score > 20

\* C15 as stated: for each of the six abilities, a score below 3 or above 20 makes
\* validateCharacter report an error naming the ability, and a score inside
\* [3,20] makes it report no error naming the ability.
C15_AbilityErrorIffOutOfRange ==
    last.op = "validateCharacter" =>
        \A i \in 1..Len(Abilities) :
            IF OutOfRange(subject.abilityScores[Abilities[i]])
            THEN /\ ~last.result.threw
                 /\ \E j \in 1..Len(last.result.errors) :
                        NamesAbility(last.result.errors[j], Abilities[i])
            ELSE ~last.result.threw =>
                 ~\E j \in 1..Len(last.result.errors) :
                      NamesAbility(last.result.errors[j], Abilities[i])

\* C15 amended: for each of the six abilities, the ability-score check of
\* validateCharacter adds the error "<Ability> score must be between 3 and 20"
\* exactly when the score is below 3 or above 20, once, and every result
\* validateCharacter returns lists it exactly then.
C15_RangeErrorIffOutOfRange ==
    last.op = "validateCharacter" =>
        \A i \in 1..Len(Abilities) :
            LET rangeError ==
                    Capitalize(Abilities[i]) \o " score must be between 3 and 20"
                pushed == ValidateAbilityScores(subject).errors
                outside == OutOfRange(subject.abilityScores[Abilities[i]])
            IN  /\ Cardinality({j \in 1..Len(pushed) : pushed[j] = rangeError})
                   = IF outside THEN 1 ELSE 0
                /\ ~last.result.threw =>
                       (Includes(last.result.errors, rangeError) <=> outside)

\* C15 witness: a returned result that lists the range error for charisma 21 and,
\* for the strength 10 that is in range, the Fighter minimum error naming strength
C15_Witness ==
    /\ last.op = "validateCharacter"
    /\ ~last.result.threw
    /\ subject.abilityScores["charisma"] = 21
    /\ subject.abilityScores["strength"] = 10
    /\ Includes(last.result.errors, "Charisma score must be between 3 and 20")
    /\ ~Includes(last.result.errors, "Strength score must be between 3 and 20")
    /\ Includes(last.result.errors, "Strength must be at least 13 for Fighter")

\* how often a message occurs in a list
Occurrences(messages, m) == Cardinality({j \in 1..Len(messages) : messages[j] = m})

\* C16: for a character whose class has table minimums, the class-requirements
\* check appends one error per unmet minimum (score < minimum), naming the
\* ability and the threshold, and none for a met minimum; a Fighter with strength
\* 10 gets an error citing strength and 13, and its result is not valid.
C16_ClassRequirementErrors ==
    last.op = "validateCharacter" =>
        LET requirements == ClassRequirements(subject.class)
            pushed == ValidateClassRequirements(subject).errors
            unmet == {i \in 1..Len(requirements) :
                         subject.abilityScores[requirements[i][1]] < requirements[i][2]}
        IN  /\ Len(pushed) = Cardinality(unmet)
            /\ \A i \in 1..Len(requirements) :
                   Occurrences(pushed,
                       Capitalize(requirements[i][1]) \o " must be at least "
                       \o ToString(requirements[i][2]) \o " for " \o subject.class)
                   = IF i \in unmet THEN 1 ELSE 0
            /\ (subject.class = "Fighter" /\ subject.abilityScores["strength"] = 10) =>
                   /\ Includes(pushed, "Strength must be at least 13 for Fighter")
                   /\ ~last.result.threw =>
                          /\ Includes(last.result.errors,
                                      "Strength must be at least 13 for Fighter")
                          /\ ~last.result.isValid
            /\ ~last.result.threw =>
                   \A j \in 1..Len(pushed) : Includes(last.result.errors, pushed[j])

\* C16 witness: a Fighter with strength 10 and constitution 12, the constitution
\* minimum: the result is not valid and lists the strength error only
C16_Witness ==
    /\ last.op = "validateCharacter"
    /\ ~last.result.threw
    /\ subject.class = "Fighter"
    /\ subject.abilityScores["strength"] = 10
    /\ subject.abilityScores["constitution"] = 12
    /\ Includes(last.result.errors, "Strength must be at least 13 for Fighter")
    /\ ~Includes(last.result.errors, "Constitution must be at least 12 for Fighter")
    /\ ~last.result.isValid

\* the sum of the skill levels of a character
SkillTotal(character) ==
    SumSeq([i \in 1..Len(character.skills) |-> character.skills[i][2]])

SkillBudgetError(character) ==
    "Total skill points (" \o ToString(SkillTotal(character)) \o ") cannot exceed "
    \o ToString(character.level * 2)

\* C17 as stated: for a character with skills, the skills check reports the budget
\* error exactly when the sum of skill levels exceeds level*2, and the
\* near-maximum warning whenever the sum is at least 80% of level*2.
C17_SkillWarningFromEightyPercent ==
    (last.op = "validateCharacter" /\ "skills" \in DOMAIN subject) =>
        LET check == ValidateSkills(subject)
        IN  /\ Includes(check.errors, SkillBudgetError(subject))
               <=> SkillTotal(subject) > subject.level * 2
            /\ 5 * SkillTotal(subject) >= 4 * (subject.level * 2) =>
                   Includes(check.warnings, "Skill points are near maximum allocation")

\* C17 amended: the budget error exactly when the sum exceeds level*2, and the
\* near-maximum warning exactly when the sum is more than 80% of level*2; a sum
\* equal to 80% of the budget gets no warning.
C17_SkillWarningAboveEightyPercent ==
    (last.op = "validateCharacter" /\ "skills" \in DOMAIN subject) =>
        LET check == ValidateSkills(subject)
        IN  /\ Includes(check.errors, SkillBudgetError(subject))
               <=> SkillTotal(subject) > subject.level * 2
            /\ Includes(check.warnings, "Skill points are near maximum allocation")
               <=> 5 * SkillTotal(subject) > 4 * (subject.level * 2)
            /\ ~last.result.threw =>
                   /\ Includes(last.result.errors, SkillBudgetError(subject))
                      <=> SkillTotal(subject) > subject.level * 2
                   /\ Includes(last.result.warnings,
                               "Skill points are near maximum allocation")
                      <=> 5 * SkillTotal(subject) > 4 * (subject.level * 2)

\* C17 witness: level 5 with skill levels 5 and 3, exactly 80% of the budget of
\* 10: neither the error nor the warning
C17_Witness ==
    /\ last.op = "validateCharacter"
    /\ ~last.result.threw
    /\ "skills" \in DOMAIN subject
    /\ subject.level = 5
    /\ SkillTotal(subject) = 8
    /\ ~Includes(last.result.warnings, "Skill points are near maximum allocation")
    /\ ~Includes(last.result.errors, SkillBudgetError(subject))

\* the sum of the item weights of a character's inventory
InventoryWeight(character) ==
    SumSeq([i \in 1..Len(character.inventory) |->
               IF "weight" \in DOMAIN character.inventory[i]
               THEN character.inventory[i].weight ELSE 0])

CapacityError(character) ==
    "Inventory weight (" \o ToString(InventoryWeight(character))
    \o ") exceeds carrying capacity of "
    \o ToString(15 * character.abilityScores["strength"])

\* C18 as stated: the inventory check reports the capacity error, citing the total
\* weight and the capacity, exactly when the sum of item weights exceeds
\* 15*strength, and the near-capacity warning whenever the sum is at least 80% of
\* 15*strength; weight 200 with strength 10 gives an error citing 200 and 150.
C18_InventoryWarningFromEightyPercent ==
    (last.op = "validateCharacter" /\ "inventory" \in DOMAIN subject) =>
        LET check == ValidateInventory(subject)
            capacity == 15 * subject.abilityScores["strength"]
        IN  /\ Includes(check.errors, CapacityError(subject))
               <=> InventoryWeight(subject) > capacity
            /\ 5 * InventoryWeight(subject) >= 4 * capacity =>
                   Includes(check.warnings, "Inventory is near maximum carrying capacity")
            /\ (InventoryWeight(subject) = 200 /\ capacity = 150) =>
                   Includes(check.errors,
                            "Inventory weight (200) exceeds carrying capacity of 150")

\* C18 amended: the capacity error exactly when the sum of item weights exceeds
\* 15*strength, and the near-capacity warning exactly when the sum is more than
\* 80% of 15*strength; a sum equal to 80% of the capacity gets no warning.
C18_InventoryWarningAboveEightyPercent ==
    (last.op = "validateCharacter" /\ "inventory" \in DOMAIN subject) =>
        LET check == ValidateInventory(subject)
            capacity == 15 * subject.abilityScores["strength"]
        IN  /\ Includes(check.errors, CapacityError(subject))
               <=> InventoryWeight(subject) > capacity
            /\ Includes(check.warnings, "Inventory is near maximum carrying capacity")
               <=> 5 * InventoryWeight(subject) > 4 * capacity
            /\ (InventoryWeight(subject) = 200 /\ capacity = 150) =>
                   Includes(check.errors,
                            "Inventory weight (200) exceeds carrying capacity of 150")
            /\ ~last.result.threw =>
                   /\ Includes(last.result.errors, CapacityError(subject))
                      <=> InventoryWeight(subject) > capacity
                   /\ Includes(last.result.warnings,
                               "Inventory is near maximum carrying capacity")
                      <=> 5 * InventoryWeight(subject) > 4 * capacity

\* C18 witness: strength 10 carrying 120, exactly 80% of the capacity of 150:
\* neither the error nor the warning
C18_Witness ==
    /\ last.op = "validateCharacter"
    /\ ~last.result.threw
    /\ subject.abilityScores["strength"] = 10
    /\ InventoryWeight(subject) = 120
    /\ ~Includes(last.result.warnings, "Inventory is near maximum carrying capacity")
    /\ ~Includes(last.result.errors, CapacityError(subject))

\* two lists with the same messages, each as often in the one as in the other
SameMessages(a, b) ==
    /\ Len(a) = Len(b)
    /\ \A i \in 1..Len(a) : Occurrences(a, a[i]) = Occurrences(b, a[i])

\* C19: for every character, the nine checks run in any order give the same
\* multiset of errors, the same multiset of warnings and the same isValid as the
\* pipeline order gives (and throw when the pipeline order throws).
C19_ChecksOrderIndependent ==
    last.op = "validateCharacterInOrder" =>
        LET fixed == ValidateCharacter(subject)
        IN  /\ last.result.threw = fixed.threw
            /\ ~fixed.threw =>
                   /\ SameMessages(last.result.errors, fixed.errors)
                   /\ SameMessages(last.result.warnings, fixed.warnings)
                   /\ last.result.isValid = fixed.isValid
            /\ last.order = PipelineOrder => last.result = fixed

\* C19 witness: the reversed order listed the same errors and warnings as the
\* pipeline order, both in another sequence
C19_Witness ==
    /\ last.op = "validateCharacterInOrder"
    /\ last.order = Reverse(PipelineOrder)
    /\ ~last.result.threw
    /\ Len(last.result.errors) > 2
    /\ Len(last.result.warnings) > 1
    /\ last.result.errors # ValidateCharacter(subject).errors
    /\ last.result.warnings # ValidateCharacter(subject).warnings
    /\ SameMessages(last.result.errors, ValidateCharacter(subject).errors)

\* C20: getNewSpellsForLevel returns the empty list for a class without a
\* spell-learning table and, for a class of the table, at every level 1..20 that
\* is not one of its spell-learning levels; at a spell-learning level it returns
\* the table's list keyed by floor(level/2), cut to maxSpellsPerLevel, and the
\* empty list when the table has no list for that key.
C20_NewSpellsForLevel ==
    last.op = "getNewSpellsForLevel" =>
        LET class == last.before.class
            level == last.before.level
            list == SpellListByLevel(class, FloorOfHalf(level))
        IN  IF class \notin {"Wizard", "Cleric"} THEN last.result = <<>>
            ELSE IF level \notin SpellLearningLevels(class) THEN last.result = <<>>
            ELSE IF list = <<>> THEN last.result = <<>>
            ELSE /\ Len(last.result)
                    = IF Len(list[1]) < MaxSpellsPerLevel(class)
                      THEN Len(list[1]) ELSE MaxSpellsPerLevel(class)
                 /\ \A i \in 1..Len(last.result) : last.result[i] = list[1][i]

\* C20 witness: a Wizard of level 4 gets the two spells of the list keyed 2
C20_Witness ==
    /\ last.op = "getNewSpellsForLevel"
    /\ last.before.class = "Wizard"
    /\ last.before.level = 4
    /\ Len(last.result) = 2
    /\ last.result[1].name = "Misty Step"

\* C21: for every level 1..20 and wisdom 3..20, prepareDailySpells returns the
\* first N spells of character.spells in learn order, each marked prepared, with
\* N = max(1, floor(level/2) + floor((wisdom-10)/2)), or all the spells if fewer
\* than N are known; character.spells is unchanged.
C21_PrepareDailySpells ==
    last.op = "prepareDailySpells" =>
        LET known == IF "spells" \in DOMAIN last.before THEN last.before.spells
                     ELSE <<>>
            sum == FloorOfHalf(last.before.level)
                   + FloorOfHalf(last.before.abilityScores["wisdom"] - 10)
            n == IF sum < 1 THEN 1 ELSE sum
            count == IF Len(known) < n THEN Len(known) ELSE n
        IN  /\ Len(last.result) = count
            /\ \A i \in 1..count :
                   /\ last.result[i].prepared = TRUE
                   /\ DOMAIN last.result[i] = (DOMAIN known[i]) \cup {"prepared"}
                   /\ \A k \in DOMAIN known[i] : last.result[i][k] = known[i][k]
            /\ last.arg = last.before

\* C21 witness: level 5 and wisdom 13 prepare the first 3 of 16 known spells
C21_Witness ==
    /\ last.op = "prepareDailySpells"
    /\ last.before.level = 5
    /\ last.before.abilityScores["wisdom"] = 13
    /\ "spells" \in DOMAIN last.before
    /\ Len(last.before.spells) = 16
    /\ Len(last.result) = 3
    /\ last.result[3].name = "spell-3"

\* the defaulted properties of a character createCharacter returned
CreatedDefaults(character) ==
    /\ character.experience = 0
    /\ character.inventory = <<>>
    /\ character.spells = <<>>
    /\ character.traits = [personality |-> <<>>, ideals |-> <<>>,
                           bonds |-> <<>>, flaws |-> <<>>]
    /\ character.status = "Active"

\* the stored record of a character's id is that character (a property whose
\* value is undefined is a missing property in the stored record)
StoredAsReturned(character) ==
    /\ GetCharacterById(store, character.id) # <<>>
    /\ LET stored == GetCharacterById(store, character.id)[1]
       IN  /\ \A k \in DOMAIN stored : k \in DOMAIN character /\ stored[k] = character[k]
           /\ \A k \in (DOMAIN character) \ (DOMAIN stored) : character[k] = Undefined

\* C22 as stated: for every partialData and generation method, the character
\* createCharacter returns has level 1, experience 0, empty inventory, empty
\* spells, four empty trait lists and status Active, and is in the store.
C22_CreatedAtLevelOne ==
    last.op = "createCharacter" =>
        /\ last.ret[1].level = 1
        /\ CreatedDefaults(last.ret[1])
        /\ StoredAsReturned(last.ret[1])

\* C22 amended: the returned character has the level of partialData when that
\* states one other than 0 and level 1 otherwise, experience 0, empty inventory,
\* empty spells, four empty trait lists and status Active, and is in the store.
C22_CreatedAtSuppliedLevel ==
    last.op = "createCharacter" =>
        /\ last.ret[1].level
           = IF "level" \in DOMAIN last.data /\ last.data.level # 0
             THEN last.data.level ELSE 1
        /\ CreatedDefaults(last.ret[1])
        /\ StoredAsReturned(last.ret[1])

\* C22 witness: a character created from a partialData without level, after one
\* created with level 3
C22_Witness ==
    /\ last.op = "createCharacter"
    /\ "level" \notin DOMAIN last.data
    /\ last.ret[1].level = 1
    /\ Len(store) = 2
    /\ store[1].level = 3
    /\ store[2] = JsonRoundTrip(last.ret[1])

\* C23: every createCharacter call creates a character whose id no stored
\* character had, the store grows by exactly one record and no record stored
\* before is replaced or changed, whatever partialData contains.
C23_CreateNeverReplaces ==
    [][last'.op = "createCharacter" =>
          /\ \A i \in 1..Len(store) : store[i].id # last'.ret[1].id
          /\ Len(store') = Len(store) + 1
          /\ SubSeq(store', 1, Len(store)) = store]_vars

ImportCalls == {"importCharacter", "managerImportCharacter"}

\* the version the importer of a call accepts
CurrentExportVersion(call) ==
    IF call.op = "importCharacter" THEN "1.1.0" ELSE "1.0.0"

ImportSucceeded(call) ==
    IF call.op = "importCharacter" THEN ~call.result.threw /\ call.result.success
    ELSE call.outcome = "ok"

ImportVersionError(call) ==
    IF call.op = "importCharacter"
    THEN /\ ~call.result.threw
         /\ ~call.result.success
         /\ call.result.errors = <<"Incompatible export version">>
    ELSE call.outcome = "versionError"

ImportAgeError(call) ==
    /\ call.op = "importCharacter"
    /\ ~call.result.threw
    /\ ~call.result.success
    /\ call.result.errors = <<"Export data is too old">>

\* the character an import that succeeded resulted in
ImportResult(call) ==
    IF call.op = "importCharacter" THEN call.result.character ELSE call.ret

\* C24: an import fails with the version error for every envelope whose version
\* is not the importer's current export version, and fails for every envelope
\* exported more than MAX_EXPORT_AGE before the call whatever its version; in
\* both cases nothing is returned or stored. An envelope aged exactly the
\* limit is not rejected for its age.
C24_ImportRejectsVersionAndAge ==
    [][(last' # last /\ last'.op \in ImportCalls) =>
           /\ last'.held.data.version # CurrentExportVersion(last') =>
                  ImportVersionError(last') /\ store' = store
           /\ OlderThanMaxExportAge(last'.at, last'.held.madeAt) =>
                  ~ImportSucceeded(last') /\ store' = store
           /\ last'.at = Later(last'.held.madeAt, MaxExportAgeDays, 0) =>
                  ~ImportAgeError(last')]_vars

\* C25: the character of a successful import has the id the import generated,
\* not the id in the payload, and validateCharacter reports no errors for it; a
\* manager import that succeeds has stored that character.
C25_ImportAssignsIdAndValidates ==
    (last.op \in ImportCalls /\ ImportSucceeded(last)) =>
        LET payload == last.held.data.character
            character == ImportResult(last)
        IN  /\ character.id = last.uuid
            /\ "id" \in DOMAIN payload => character.id # payload.id
            /\ ~ValidateCharacter(character).threw
            /\ ValidateCharacter(character).errors = <<>>
            /\ last.op = "managerImportCharacter" =>
                   GetCharacterById(store, character.id) = Some(character)

\* an import by CharacterExportSystem of the unmodified envelope of an accepted
\* export, within the age window
RoundTrip ==
    /\ last.op = "importCharacter"
    /\ last.held.source # <<>>
    /\ ~OlderThanMaxExportAge(last.at, last.held.madeAt)

\* C26 as stated: the round trip succeeds and yields a character with the same
\* fields and values as the exported one, except for a newly generated id.
C26_RoundTripSameFields ==
    RoundTrip =>
        LET c == last.held.source[1]
        IN  /\ ~last.result.threw
            /\ last.result.success
            /\ DOMAIN last.result.character = DOMAIN c
            /\ \A k \in DOMAIN c \ {"id"} : last.result.character[k] = c[k]
            /\ last.result.character.id = last.uuid
            /\ last.result.character.id # c.id

\* C26, amended: the round trip succeeds and yields a character with the same
\* fields and values as the exported one, except for a newly generated id, the
\* absence of status and campaignId, and an added exportedAt holding the time
\* of the export.
C26_RoundTripSanitized ==
    RoundTrip =>
        LET c == last.held.source[1]
            kept == DOMAIN c \ {"id", "status", "campaignId"}
        IN  /\ ~last.result.threw
            /\ last.result.success
            /\ DOMAIN last.result.character = kept \cup {"id", "exportedAt"}
            /\ \A k \in kept : last.result.character[k] = c[k]
            /\ last.result.character.id = last.uuid
            /\ last.result.character.id # c.id
            /\ last.result.character.exportedAt = last.held.madeAt

\* a character with a campaignId is imported from its unmodified envelope at
\* exactly the age limit
C26_Witness ==
    /\ RoundTrip
    /\ "campaignId" \in DOMAIN last.held.source[1]
    /\ last.at = Later(last.held.madeAt, MaxExportAgeDays, 0)
    /\ last.result.success

\* C27: when two operations on two different character ids have both returned,
\* however their reads and writes of the storage were interleaved, the store
\* holds the character each of them saved.
C27_NoLostUpdate ==
    (procs # <<>> /\ \A t \in 1..Len(procs) : procs[t].pc = "returned") =>
        \A t \in 1..Len(procs) :
            GetCharacterById(store, procs[t].id) =
                Some(JsonRoundTrip(procs[t].character[1]))

\* the number of times an id occurs in a list of ids
TimesIn(ids, id) == Cardinality({i \in 1..Len(ids) : ids[i] = id})

\* C28: in the create-character request, every id in a campaign's list is the
\* id of a stored character at every moment (the id is appended only after
\* createCharacter has stored the character); when creation validation
\* fails, the character store and the campaigns are as they were; after a
\* successful request the list of the owning campaign is the list it held
\* before followed by the new id, which it did not hold before.
C28_CampaignListAfterCreate ==
    /\ \A i \in 1..Len(campaigns) : \A k \in 1..Len(campaigns[i].characters) :
           campaigns[i].characters[k] \in StoredIds
    /\ (last.op = "create-character" /\ last.outcome = "invalid") =>
           store = last.before.store /\ campaigns = last.before.campaigns
    /\ (last.op = "create-character" /\ last.outcome = "ok") =>
           /\ GetCharacterById(store, last.character[1].id) # <<>>
           /\ \A i \in 1..Len(last.before.campaigns) :
                  IF last.before.campaigns[i].id = last.campaignId
                  THEN /\ campaigns[i].characters =
                              Append(last.before.campaigns[i].characters,
                                     last.character[1].id)
                       /\ TimesIn(campaigns[i].characters, last.character[1].id) = 1
                  ELSE campaigns[i] = last.before.campaigns[i]
           /\ Len(campaigns) = Len(last.before.campaigns)

\* a successful request has added a second id to the list of its campaign
C28_Witness ==
    /\ last.op = "create-character"
    /\ last.outcome = "ok"
    /\ \E i \in 1..Len(campaigns) :
           /\ campaigns[i].id = last.campaignId
           /\ Len(campaigns[i].characters) = 2
           /\ campaigns[i].characters[2] = last.character[1].id

\* C29: no two stored characters have the same id, and saveCharacter of a
\* character whose id is stored replaces that record where it is, leaving the
\* other records and the size of the store as they were, while saveCharacter
\* of a character with a new id appends one record.
C29_UniqueIdsAndSaveInPlace ==
    /\ \A i, j \in 1..Len(store) : store[i].id = store[j].id => i = j
    /\ last.op = "saveCharacter" =>
           LET held == {i \in 1..Len(last.before) :
                           last.before[i].id = last.character.id}
           IN  IF held # {}
               THEN /\ Len(store) = Len(last.before)
                    /\ \A i \in 1..Len(store) :
                           store[i] = IF i \in held THEN JsonRoundTrip(last.character)
                                      ELSE last.before[i]
               ELSE store = Append(last.before, JsonRoundTrip(last.character))

\* saveCharacter has replaced the first of two stored characters
C29_Witness ==
    /\ last.op = "saveCharacter"
    /\ Len(last.before) = 2
    /\ last.before[1].id = last.character.id
    /\ store[1].name = "Renamed"
    /\ last.before[1].name # "Renamed"

\* a step in which levelUpCharacter or updateCharacterBackground succeeds
UpdateSucceeds ==
    /\ ops' # ops
    /\ last'.op \in {"levelUpCharacter", "updateCharacterBackground"}
    /\ last'.outcome = "ok"

\* C30: a successful levelUpCharacter(id) or updateCharacterBackground(id, ...)
\* leaves the number of stored characters and every stored character with
\* another id as they were, and levelUpCharacter keeps the spells the
\* character had as the beginning of its spell list.
C30_UpdateFrame ==
    [][UpdateSucceeds =>
           /\ Len(store') = Len(store)
           /\ \A i \in 1..Len(store) :
                  store[i].id # last'.id => store'[i] = store[i]
           /\ last'.op = "levelUpCharacter" =>
                  LET old == last'.before[1].spells
                      new == GetCharacterById(store', last'.id)[1].spells
                  IN  /\ Len(new) >= Len(old)
                      /\ SubSeq(new, 1, Len(old)) = old
                      /\ last'.ret[1].spells = new]_vars

\* levelUpCharacter has added spells to those of a character that had some,
\* in a store of two characters
C30_Witness ==
    /\ last.op = "levelUpCharacter"
    /\ last.outcome = "ok"
    /\ Len(store) = 2
    /\ Len(last.before[1].spells) > 0
    /\ Len(last.ret[1].spells) > Len(last.before[1].spells)

====
